---- MODULE Spec2Model ----
(***************************************************************************)
(* Voice integration layer: VoiceManager (session controller), VoiceMonitor *)
(* (error counting, escalation, recovery actions, health check),            *)
(* MacPermissionManager (capture permission) and WebViewVoiceService        *)
(* (recognition provider living in a webview).                              *)
(*                                                                          *)
(* Every asynchronous invocation that is suspended at an await is a task in *)
(* the bag `tasks`; one action is one run of a handler from one await to    *)
(* the next.  `out` holds what the last step emitted (notifications,        *)
(* commands posted to the webview), so that properties of a single call can *)
(* be stated as properties of a single step.                                *)
(***************************************************************************)
EXTENDS Integers, Sequences, FiniteSets, Bags, TLC

VARIABLES platform, isActive, webview, sessions, errorCounts, tasks, calls, out,
          healthCheckTimer, lastHealthCheck, now,
          provider, resultCallback, errorCallback, results, posted, handed,
          watchTimer, previousState, panel, speaking, player, inbox,
          synthesisService, voiceSynthesis, isListening, recognizing, ret

\* VoiceMonitor's periodic health check: the interval timer, the time of the
\* last healthy probe, and the clock
healthVars == <<healthCheckTimer, lastHealthCheck, now>>

\* WebSpeechRecognitionService: its isListening flag, and whether its
\* recognizer is started
recognizerVars == <<isListening, recognizing>>

\* delivery of recognition results: the recognition service in use, whether
\* a result handler is registered, event.results of the recognizer, the
\* result messages on their way from the webview to the extension, and the
\* texts handed to the handler
resultVars ==
    <<provider, resultCallback, errorCallback, results, posted, handed,
      recognizerVars>>

\* MacPermissionManager.watchPermissionChanges: whether its interval is
\* scheduled, and the previousState of its closure
permissionVars == <<watchTimer, previousState>>

\* VoicevoxService.speak: the promise of each call, the call whose audio the
\* player of the panel is playing, and the messages the panel's script has
\* posted that the extension has not received yet
playbackVars == <<speaking, player, inbox>>

\* the VoicevoxService the VoiceManager holds and the one its command handler
\* speaks through, each as the configuration it was built with
settingsVars == <<synthesisService, voiceSynthesis>>

\* VoicevoxService: whether the playback panel of the handler's service
\* exists, its playbacks, and the services configured
synthesisVars == <<panel, playbackVars, settingsVars>>

\* what the last call of a function that keeps no state returned
\* (handleCommand, synthesize, the permission queries)
callVars == <<ret>>

\* the services around the VoiceManager and its monitor
serviceVars == <<resultVars, permissionVars, synthesisVars, callVars>>

vars == <<platform, isActive, webview, sessions, errorCounts, tasks, calls, out,
          healthVars, serviceVars>>

\* the state of the VoiceManager, its panel and its monitor's counters
controllerVars == <<platform, isActive, webview, sessions, errorCounts, calls>>

(* ------------------------------ bounds --------------------------------- *)
\* largest value a counter of errorCounts is driven to
MaxCount == 4
\* largest number of suspended asynchronous invocations at one time
MaxTasks == 2
\* largest value of the clock
MaxTime == 2
\* largest number of results of one recognition session
MaxResults == 3
\* largest number of pieces of a spoken command
MaxLen == 3
\* largest number of speak() calls
MaxSpeak == 2

(* ---------------------------- constants -------------------------------- *)
ERROR_THRESHOLD == 3

Platforms == {"darwin", "other"}

\* Error.name of the three classes of error that reach logError
ErrorKeys == {"VoiceRecognitionError", "VoicevoxError", "Error"}

VoiceRecognitionErrorCode ==
    {"no-speech", "audio-capture", "not-allowed", "network", "bad-grammar",
     "language-not-supported"}

(* ------------------------------ texts ---------------------------------- *)
\* A message text is a sequence of fragments; String.includes is fragment
\* membership.
Includes(text, fragment) == \E i \in DOMAIN text : text[i] = fragment

\* the webview script's localisation of a recognition error code
getErrorMessage(error) ==
    CASE error = "no-speech" -> <<"onsei-ga", "kenshutsu-saremasen-deshita">>
      [] error = "audio-capture" -> <<"maiku-ni", "akusesu-dekimasen">>
      [] error = "not-allowed" -> <<"maiku-no-shiyou-ga", "kyoka-sarete-imasen">>
      [] error = "network" -> <<"nettowaaku", "eraa-ga-hassei-shimashita">>
      [] error = "bad-grammar" -> <<"bunpou", "eraa-ga-hassei-shimashita">>
      [] error = "language-not-supported" ->
            <<"shitei-sareta", "gengo", "wa-sapooto-sarete-imasen">>
      [] OTHER -> <<"onsei-ninshiki", "eraa-ga-hassei-shimashita", error>>

mapErrorCode(error) ==
    IF Includes(error, "kyoka-sarete-imasen") THEN "not-allowed"
    ELSE IF Includes(error, "kenshutsu-saremasen-deshita") THEN "no-speech"
    ELSE IF Includes(error, "akusesu-dekimasen") THEN "audio-capture"
    ELSE IF Includes(error, "nettowaaku") THEN "network"
    ELSE IF Includes(error, "bunpou") THEN "bad-grammar"
    ELSE IF Includes(error, "gengo") THEN "language-not-supported"
    ELSE "not-allowed"

\* error texts the webview posts: the localised recognition errors, the
\* fallback text of an initialisation failure, the message of an exception
\* on its own ("Canceled") and appended to the initialisation text
WebviewErrorTexts ==
    {getErrorMessage(c) : c \in VoiceRecognitionErrorCode}
        \cup {<<"maiku-no-shokika-ni-shippai">>, <<"Canceled">>,
              <<"maiku-no-shokika-ni-shippai", "Canceled">>}

(* ------------------------------ errors --------------------------------- *)
VoiceRecognitionError(message, code) ==
    [name |-> "VoiceRecognitionError", code |-> code, message |-> message]

VoicevoxError(message, statusCode) ==
    [name |-> "VoicevoxError", code |-> statusCode, message |-> message]

GenericError(message) ==
    [name |-> "Error", code |-> "none", message |-> message]

\* the errors a client hands to VoiceMonitor.logError
MonitorErrors ==
    {VoiceRecognitionError(<<"test-error">>, "not-allowed"),
     VoicevoxError(<<"synthesis-error">>, 500),
     GenericError(<<"unexpected">>)}

(* ------------------------------- tasks --------------------------------- *)
\* pc: the await at which the invocation is suspended
\*   call        cline.toggleVoiceRecognition dispatched, not yet run
\*   probe       start() awaiting monitor.checkHealth()
\*   perm        start() awaiting requestMicrophonePermission()
\*   listen      start() awaiting recognitionService.startListening()
\*   help        handleError() awaiting showPermissionHelp()
\*   promptVoice / promptVvx   escalation prompt waiting for the user
\*   vvxFetch    restartVoicevoxService() awaiting its fetch
\*   healthFetch checkHealth() awaiting its fetch
\* quiet: the message of the error being handled includes "Canceled"
Task(pc, origin, probe, perm) ==
    [pc |-> pc, origin |-> origin, probe |-> probe, perm |-> perm,
     quiet |-> FALSE]

Single(t) == SetToBag({t})

ToggleCall(origin) == Task("call", origin, "none", "none")
HelpTask(quiet) ==
    [Task("help", "handleError", "none", "none") EXCEPT !.quiet = quiet]
PromptTask(key) ==
    Task(IF key = "VoiceRecognitionError" THEN "promptVoice" ELSE "promptVvx",
         "monitor", "none", "none")
FetchTask == Task("vvxFetch", "monitor", "none", "none")

\* number of suspended invocations at pc
Pending(ts, pc) ==
    LET S == {t \in BagToSet(ts) : t.pc = pc}
        RECURSIVE Sum(_)
        Sum(R) == IF R = {} THEN 0
                  ELSE LET t == CHOOSE x \in R : TRUE
                       IN CopiesIn(t, ts) + Sum(R \ {t})
    IN Sum(S)

\* a toggle invocation returns; the first toggle of a recognition restart is
\* followed by the second one (restartVoiceRecognition's .then)
Finish(t, ts) ==
    (ts (-) Single(t))
        (+) (IF t.origin = "restart1" THEN Single(ToggleCall("restart2"))
             ELSE EmptyBag)

(* ------------------------------ outputs -------------------------------- *)
\* warn: warnings shown; memory, response: what a health check saw;
\* message, code: the error text a webview posted and the code it was given;
\* created: recognition panels created
NoOut ==
    [op |-> "init", key |-> "none", logged |-> "none", esc |-> 0, err |-> 0,
     start |-> 0, stop |-> 0, probe |-> "none", perm |-> "none",
     origin |-> "none", warn |-> 0, memory |-> "none", response |-> "none",
     message |-> << >>, code |-> "none", created |-> 0]

\* the configuration of a VoicevoxService
VoicevoxConfig(apiEndpoint, speakerId) ==
    [apiEndpoint |-> apiEndpoint, speakerId |-> speakerId]

NoService == VoicevoxConfig("none", 0)

\* the return of a call: fn the function, text its argument, command the
\* preprocessed text, result "resolved" or "rejected", value the text
\* returned, error and status the name and the status of the error thrown,
\* host the host commands executed, requests the HTTP requests issued,
\* dialogs the dialogs shown, answers what the system and the user answered,
\* service the VoicevoxService the call went to
NoRet ==
    [fn |-> "none", text |-> << >>, command |-> << >>, result |-> "none",
     value |-> << >>, error |-> "none", status |-> 0, host |-> << >>,
     requests |-> << >>, dialogs |-> 0, answers |-> << >>,
     service |-> NoService]

(* --------------------------- VoiceMonitor ------------------------------ *)
\* logError: the counter update
logError_count(counts, errorKey) ==
    [counts EXCEPT ![errorKey] = counts[errorKey] + 1]

\* variant whose default branch shows nothing
handleRecurringError_quiet(errorKey) ==
    IF errorKey \in {"VoiceRecognitionError", "VoicevoxError"}
    THEN [tasks |-> Single(PromptTask(errorKey)), err |-> 0]
    ELSE [tasks |-> EmptyBag, err |-> 0]

\* handleRecurringError: what the escalation of a key starts
\*   tasks: the prompt that is now waiting for the user
\*   err:   error notifications shown at once (handleGenericError)
handleRecurringError(errorKey) ==
    IF errorKey \in {"VoiceRecognitionError", "VoicevoxError"}
    THEN [tasks |-> Single(PromptTask(errorKey)), err |-> 0]
    ELSE [tasks |-> EmptyBag, err |-> 1]

NoEscalation == [tasks |-> EmptyBag, err |-> 0]

\* threshold compared with > instead of >=
logError_exceeds(counts, ts, error) ==
    LET next == logError_count(counts, error.name)
        esc == next[error.name] > ERROR_THRESHOLD
        h == IF esc THEN handleRecurringError(error.name) ELSE NoEscalation
    IN [counts |-> next, tasks |-> ts (+) h.tasks, err |-> h.err,
        esc |-> IF esc THEN 1 ELSE 0]

\* single-flight variant: no new prompt while one of the key is pending
logError_singleFlight(counts, ts, error) ==
    LET next == logError_count(counts, error.name)
        busy == \/ /\ error.name = "VoiceRecognitionError"
                   /\ Pending(ts, "promptVoice") > 0
                \/ /\ error.name = "VoicevoxError"
                   /\ Pending(ts, "promptVvx") + Pending(ts, "vvxFetch") > 0
        esc == next[error.name] >= ERROR_THRESHOLD /\ ~busy
        h == IF esc THEN handleRecurringError(error.name) ELSE NoEscalation
    IN [counts |-> next, tasks |-> ts (+) h.tasks, err |-> h.err,
        esc |-> IF esc THEN 1 ELSE 0]

\* logError(error) run on counters `counts` with suspended invocations `ts`
logError(counts, ts, error) ==
    LET next == logError_count(counts, error.name)
        esc == next[error.name] >= ERROR_THRESHOLD
        h == IF esc THEN handleRecurringError(error.name) ELSE NoEscalation
    IN [counts |-> next, tasks |-> ts (+) h.tasks, err |-> h.err,
        esc |-> IF esc THEN 1 ELSE 0]

\* errorCounts.clear() in place of delete(key)
deleteCount_all(counts, key) == [k \in DOMAIN counts |-> 0]

\* errorCounts.delete(key)
deleteCount(counts, key) == [counts EXCEPT ![key] = 0]

\* variant that does not look at the heap
checkHealth_memory_ignored(memory) == "fetch"

\* checkHealth, try block up to the fetch: throws when the heap is over the
\* threshold, else issues the request
checkHealth_memory(memory) == IF memory = "over" THEN "throw" ELSE "fetch"

\* checkHealth, try block after the fetch: a rejected fetch throws, a
\* response that is not ok throws, else the result is true
checkHealth_response(response) ==
    IF response = "failed" THEN "throw"
    ELSE IF response = "notOk" THEN "throw"
    ELSE "true"

\* variant without the catch
checkHealth_catch_rethrows(outcome) == outcome

\* checkHealth, catch block: whatever was thrown becomes the result false
checkHealth_catch(outcome) == IF outcome = "throw" THEN "false" ELSE outcome

\* checkHealth as its caller sees it: memory first, then the endpoint request
checkHealth(memory, response) ==
    LET outcome == IF checkHealth_memory(memory) = "throw" THEN "throw"
                   ELSE checkHealth_response(response)
    IN checkHealth_catch(outcome) = "true"

\* how a caller of checkHealth() sees its promise settle
ProbeResult(outcome) ==
    CASE outcome = "true" -> "healthy"
      [] outcome = "false" -> "unhealthy"
      [] OTHER -> "rejected"

MemoryStates == {"within", "over"}
FetchResults == {"ok", "notOk", "failed"}

\* every path through checkHealth(): with the heap over the threshold no
\* request is made
HealthRuns ==
    {[memory |-> "over", response |-> "none"]}
      \cup {[memory |-> "within", response |-> f] : f \in FetchResults}

(* ------------------------ MacPermissionManager ------------------------- *)
\* osascript exists on darwin only: elsewhere exec rejects and the catch
\* yields false
checkMicrophonePermission(p, granted) == p = "darwin" /\ granted

DialogChoices == {"accept", "cancel", "dismiss"}

\* one run of the grant flow: the answers of the permission queries, of the
\* three dialogs, of opening the system settings and of the window reload
PermissionRun(check1, action, openOk, granted, restart, reloadOk, check2) ==
    [check1 |-> check1, action |-> action, openOk |-> openOk,
     granted |-> granted, restart |-> restart, reloadOk |-> reloadOk,
     check2 |-> check2]

\* every path through requestMicrophonePermission(); the answers that a
\* path does not ask for are left at accept / TRUE
PermissionRuns ==
    {PermissionRun(TRUE, "accept", TRUE, "accept", "accept", TRUE, TRUE)}
      \cup {PermissionRun(FALSE, a, TRUE, "accept", "accept", TRUE, TRUE) :
               a \in {"cancel", "dismiss"}}
      \cup {PermissionRun(FALSE, "accept", FALSE, "accept", "accept", TRUE, TRUE)}
      \cup {PermissionRun(FALSE, "accept", TRUE, g, "accept", TRUE, TRUE) :
               g \in {"cancel", "dismiss"}}
      \cup {PermissionRun(FALSE, "accept", TRUE, "accept", r, TRUE, TRUE) :
               r \in {"cancel", "dismiss"}}
      \cup {PermissionRun(FALSE, "accept", TRUE, "accept", "accept", FALSE, TRUE)}
      \cup {PermissionRun(FALSE, "accept", TRUE, "accept", "accept", TRUE, c) :
               c \in BOOLEAN}

requestMicrophonePermission(p, r) ==
    IF checkMicrophonePermission(p, r.check1) THEN TRUE
    ELSE IF r.action # "accept" THEN FALSE
    ELSE IF ~r.openOk THEN FALSE
    ELSE IF r.granted # "accept" THEN FALSE
    ELSE IF r.restart # "accept" THEN FALSE
    ELSE IF ~r.reloadOk THEN FALSE
    ELSE checkMicrophonePermission(p, r.check2)

\* the user cancelled or dismissed one of the dialogs of the grant flow
UserCancelled(p, r) ==
    /\ ~checkMicrophonePermission(p, r.check1)
    /\ \/ r.action # "accept"
       \/ /\ r.openOk
          /\ \/ r.granted # "accept"
             \/ r.restart # "accept"

(* ------------------------ WebViewVoiceService -------------------------- *)
\* one run of startListening(): the answer of the permission query, of the
\* "open the system settings" prompt, of opening them and of creating the panel
ListenRun(granted, action, openOk, panelOk) ==
    [granted |-> granted, action |-> action, openOk |-> openOk,
     panelOk |-> panelOk]

\* every path through startListening(); the answers that a path does not
\* ask for are left at accept / TRUE
ListenRuns ==
    {ListenRun(FALSE, a, TRUE, TRUE) : a \in DialogChoices}
      \cup {ListenRun(FALSE, "accept", FALSE, TRUE)}
      \cup {ListenRun(TRUE, "accept", TRUE, ok) : ok \in BOOLEAN}

\* variant that posts the start command only when it creates the panel
startListening_guarded(p, hasWebview, r) ==
    IF ~checkMicrophonePermission(p, r.granted)
    THEN [result |-> IF r.action = "accept" /\ ~r.openOk THEN "throw"
                     ELSE "silent",
          webview |-> hasWebview, start |-> 0, err |-> 1]
    ELSE IF ~hasWebview /\ ~r.panelOk
    THEN [result |-> "throw", webview |-> hasWebview, start |-> 0, err |-> 0]
    ELSE [result |-> "posted", webview |-> TRUE,
          start |-> IF hasWebview THEN 0 ELSE 1, err |-> 0]

\* startListening(): result "posted" (start command posted to the webview),
\* "silent" (returned without posting) or "throw" (VoiceRecognitionError);
\* err counts the error prompts it shows
startListening(p, hasWebview, r) ==
    IF ~checkMicrophonePermission(p, r.granted)
    THEN [result |-> IF r.action = "accept" /\ ~r.openOk THEN "throw"
                     ELSE "silent",
          webview |-> hasWebview, start |-> 0, err |-> 1]
    ELSE IF ~hasWebview /\ ~r.panelOk
    THEN [result |-> "throw", webview |-> hasWebview, start |-> 0, err |-> 0]
    ELSE [result |-> "posted", webview |-> TRUE, start |-> 1, err |-> 0]

\* stopListening(): posts stop to the webview when there is one
stopListening(hasWebview) == IF hasWebview THEN 1 ELSE 0

(* ---------------------------- VoiceManager ----------------------------- *)
\* variant that goes on whatever the probe returned
start_afterProbe_unchecked(p, isHealthy) ==
    IF p = "darwin" THEN "perm" ELSE "listen"

\* start() after the probe: throw, ask for permission, or go on to listen
start_afterProbe(p, isHealthy) ==
    IF ~isHealthy THEN "throw"
    ELSE IF p = "darwin" THEN "perm"
    ELSE "listen"

\* variant that treats a missing permission as an error
start_afterPermission_throws(hasPermission) ==
    IF ~hasPermission THEN "throw" ELSE "listen"

\* start() after the permission request: silent return, or go on to listen
start_afterPermission(hasPermission) ==
    IF ~hasPermission THEN "return" ELSE "listen"

\* variant that forgets to mark the session active
start_afterListening_inactive(counts) ==
    [isActive |-> FALSE, counts |-> counts]

\* variant that resets the recognition counter on a successful start
start_afterListening_resets(counts) ==
    [isActive |-> TRUE,
     counts |-> [counts EXCEPT !["VoiceRecognitionError"] = 0]]

\* start() after startListening() returned: the session becomes active and
\* the monitor is not touched
start_afterListening(counts) == [isActive |-> TRUE, counts |-> counts]

\* variant that turns the session off only when the provider has a panel
Stop_whenPanel ==
    /\ isActive' = IF webview THEN FALSE ELSE isActive
    /\ sessions' = IF webview THEN 0 ELSE sessions

\* stop(): effect on the session and on the provider
Stop ==
    /\ isActive' = FALSE
    /\ sessions' = IF webview THEN 0 ELSE sessions

\* handleError(error) called by the invocation described by o (an out
\* record with op, origin, probe, perm filled in), with `ts` the suspended
\* invocations that remain and `shown` the error prompts already shown
HandleError(error, ts, o, shown) ==
    LET l == logError(errorCounts, ts, error)
        isRecognition == error.name = "VoiceRecognitionError"
        help == /\ isRecognition
                /\ platform = "darwin"
                /\ error.code = "not-allowed"
        notify == IF help \/ Includes(error.message, "Canceled") THEN 0 ELSE 1
    IN /\ errorCounts[error.name] < MaxCount
       /\ errorCounts' = l.counts
       /\ calls' = [calls EXCEPT ![error.name] = @ + 1]
       /\ tasks' = l.tasks
                     (+) (IF help
                          THEN Single(HelpTask(Includes(error.message,
                                                        "Canceled")))
                          ELSE EmptyBag)
       /\ BagCardinality(tasks') <= MaxTasks
       /\ IF isRecognition THEN Stop ELSE UNCHANGED <<isActive, sessions>>
       /\ out' = [o EXCEPT !.logged = error.name, !.esc = l.esc,
                           !.key = error.name,
                           !.err = shown + l.err + notify,
                           !.stop = IF isRecognition
                                    THEN stopListening(webview) ELSE 0]

\* the user (status bar item) or a client dispatches the toggle command
InvokeToggle ==
    /\ UNCHANGED <<healthVars, serviceVars>>
    /\ BagCardinality(tasks) < MaxTasks
    /\ tasks' = tasks (+) Single(ToggleCall("user"))
    /\ out' = [NoOut EXCEPT !.op = "invoke", !.origin = "user"]
    /\ UNCHANGED <<platform, isActive, webview, sessions, errorCounts, calls>>

\* toggleVoiceRecognition() up to its first await: stop() when active, else
\* start() up to the await of checkHealth()
toggleVoiceRecognition(t) ==
    /\ UNCHANGED <<healthVars, serviceVars>>
    /\ t.pc = "call"
    /\ IF isActive
       THEN /\ Stop
            /\ tasks' = Finish(t, tasks)
            /\ out' = [NoOut EXCEPT !.op = "stop", !.origin = t.origin,
                                    !.stop = stopListening(webview)]
       ELSE /\ tasks' = (tasks (-) Single(t))
                            (+) Single([t EXCEPT !.pc = "probe"])
            /\ out' = [NoOut EXCEPT !.op = "start", !.origin = t.origin]
            /\ UNCHANGED <<isActive, sessions>>
    /\ UNCHANGED <<platform, webview, errorCounts, calls>>

\* start(): checkHealth() has settled
start_probe(t, h) ==
    /\ t.pc = "probe"
    /\ lastHealthCheck' = IF checkHealth(h.memory, h.response) THEN now
                          ELSE lastHealthCheck
    /\ UNCHANGED <<healthCheckTimer, now, serviceVars>>
    /\ LET isHealthy == checkHealth(h.memory, h.response)
           probe == IF isHealthy THEN "healthy" ELSE "unhealthy"
           next == start_afterProbe(platform, isHealthy)
       IN IF next = "throw"
          THEN /\ HandleError(GenericError(<<"unstable">>), Finish(t, tasks),
                              [NoOut EXCEPT !.op = "startUnhealthy",
                                            !.origin = t.origin,
                                            !.probe = probe], 0)
               /\ UNCHANGED <<platform, webview>>
          ELSE /\ tasks' = (tasks (-) Single(t))
                             (+) Single([t EXCEPT !.pc = next,
                                                  !.probe = probe])
               /\ out' = [NoOut EXCEPT !.op = "startProbed",
                                       !.origin = t.origin, !.probe = probe]
               /\ UNCHANGED <<platform, isActive, webview, sessions,
                              errorCounts, calls>>

\* start(): requestMicrophonePermission() has settled (darwin)
start_permission(t, r) ==
    /\ UNCHANGED <<healthVars, serviceVars>>
    /\ t.pc = "perm"
    /\ LET hasPermission == requestMicrophonePermission(platform, r)
           perm == IF hasPermission THEN "granted" ELSE "denied"
           next == start_afterPermission(hasPermission)
           o == [NoOut EXCEPT !.origin = t.origin, !.probe = t.probe,
                              !.perm = perm,
                              !.op = IF hasPermission THEN "startPermitted"
                                     ELSE IF UserCancelled(platform, r)
                                     THEN "permCancelled"
                                     ELSE "permDenied"]
       IN CASE next = "listen" ->
                 /\ tasks' = (tasks (-) Single(t))
                               (+) Single([t EXCEPT !.pc = "listen",
                                                    !.perm = perm])
                 /\ out' = o
                 /\ UNCHANGED <<platform, isActive, webview, sessions,
                                errorCounts, calls>>
            [] next = "return" ->
                 /\ tasks' = Finish(t, tasks)
                 /\ out' = o
                 /\ UNCHANGED <<platform, isActive, webview, sessions,
                                errorCounts, calls>>
            [] OTHER ->
                 /\ HandleError(GenericError(<<"permission">>),
                                Finish(t, tasks), o, 0)
                 /\ UNCHANGED <<platform, webview>>

\* start(): startListening() has settled
start_listen(t, r) ==
    /\ UNCHANGED <<healthVars, serviceVars>>
    /\ t.pc = "listen"
    /\ LET s == startListening(platform, webview, r)
           o == [NoOut EXCEPT !.origin = t.origin, !.probe = t.probe,
                              !.perm = t.perm]
       IN IF s.result = "throw"
          THEN /\ HandleError(
                    VoiceRecognitionError(<<"maiku-no-shokika-ni-shippai">>,
                                          "audio-capture"),
                    Finish(t, tasks), [o EXCEPT !.op = "startFailed"], s.err)
               /\ UNCHANGED <<platform, webview>>
          ELSE LET a == start_afterListening(errorCounts)
               IN /\ isActive' = a.isActive
                  /\ errorCounts' = a.counts
                  /\ calls' = calls
                  /\ webview' = s.webview
                  /\ sessions' = sessions + s.start
                  /\ tasks' = Finish(t, tasks)
                  /\ out' = [o EXCEPT !.op = "startOk", !.start = s.start,
                                      !.err = s.err]
                  /\ UNCHANGED platform

\* the webview posts {type: "error", error: text}
webviewError(text) ==
    /\ UNCHANGED <<healthVars, serviceVars>>
    /\ webview
    /\ IF text = <<"Canceled">>
       THEN /\ out' = [NoOut EXCEPT !.op = "errorIgnored",
                                    !.origin = "webview"]
            /\ UNCHANGED <<platform, isActive, webview, sessions, errorCounts,
                           tasks, calls>>
       ELSE /\ HandleError(VoiceRecognitionError(text, mapErrorCode(text)),
                           tasks,
                           [NoOut EXCEPT !.op = IF Includes(text, "Canceled")
                                                THEN "recognitionCanceled"
                                                ELSE "recognitionError",
                                         !.origin = "webview"], 0)
            /\ UNCHANGED <<platform, webview>>

\* handleError(): showPermissionHelp() has settled; when it rejected, the
\* rest of handleError does not run
handleError_afterHelp(t, settled) ==
    /\ UNCHANGED <<healthVars, serviceVars>>
    /\ t.pc = "help"
    /\ tasks' = tasks (-) Single(t)
    /\ out' = [NoOut EXCEPT !.op = "helpShown", !.origin = t.origin,
                            !.key = "VoiceRecognitionError",
                            !.err = IF settled /\ ~t.quiet THEN 1 ELSE 0]
    /\ UNCHANGED <<platform, isActive, webview, sessions, errorCounts, calls>>

\* the webview posts {type: "result"}: handleCommand() then
\* provideFeedback(); a synthesis or playback failure is caught inside
\* provideFeedback() and replaced by a text notification
onResult(feedbackOk) ==
    /\ UNCHANGED <<healthVars, serviceVars>>
    /\ webview
    /\ out' = [NoOut EXCEPT !.op = IF feedbackOk THEN "feedbackOk"
                                   ELSE "feedbackFailed",
                            !.origin = "webview"]
    /\ UNCHANGED <<platform, isActive, webview, sessions, errorCounts, tasks,
                   calls>>

\* the user closes the recognition panel (panel.onDidDispose)
closePanel ==
    /\ UNCHANGED <<healthVars, serviceVars>>
    /\ webview
    /\ webview' = FALSE
    /\ sessions' = 0
    /\ out' = [NoOut EXCEPT !.op = "panelClosed", !.origin = "user"]
    /\ UNCHANGED <<platform, isActive, errorCounts, tasks, calls>>

\* the user answers the recognition escalation prompt; "accept" runs
\* restartVoiceRecognition(): the first toggle is dispatched, the counter is
\* deleted and the "restarted" message is shown, all before any toggle ran
restartVoiceRecognition(t, selection) ==
    /\ UNCHANGED <<healthVars, serviceVars>>
    /\ t.pc = "promptVoice"
    /\ IF selection = "accept"
       THEN /\ tasks' = (tasks (-) Single(t)) (+) Single(ToggleCall("restart1"))
            /\ errorCounts' = deleteCount(errorCounts, "VoiceRecognitionError")
            /\ calls' = [calls EXCEPT !["VoiceRecognitionError"] = 0]
            /\ out' = [NoOut EXCEPT !.op = "restartVoiceRecognition",
                                    !.key = "VoiceRecognitionError",
                                    !.origin = "monitor"]
       ELSE /\ tasks' = tasks (-) Single(t)
            /\ out' = [NoOut EXCEPT !.op = "promptDismissed",
                                    !.key = "VoiceRecognitionError",
                                    !.origin = "monitor"]
            /\ UNCHANGED <<errorCounts, calls>>
    /\ UNCHANGED <<platform, isActive, webview, sessions>>

\* the user answers the synthesis escalation prompt; "accept" runs
\* restartVoicevoxService() up to its fetch
restartVoicevoxService(t, selection) ==
    /\ UNCHANGED <<healthVars, serviceVars>>
    /\ t.pc = "promptVvx"
    /\ tasks' = (tasks (-) Single(t))
                  (+) (IF selection = "accept" THEN Single(FetchTask)
                       ELSE EmptyBag)
    /\ out' = [NoOut EXCEPT !.op = IF selection = "accept"
                                   THEN "restartVoicevoxService"
                                   ELSE "promptDismissed",
                            !.key = "VoicevoxError", !.origin = "monitor"]
    /\ UNCHANGED <<platform, isActive, webview, sessions, errorCounts, calls>>

\* restartVoicevoxService(): the fetch has settled
restartVoicevoxService_afterFetch(t, response) ==
    /\ UNCHANGED <<healthVars, serviceVars>>
    /\ t.pc = "vvxFetch"
    /\ tasks' = tasks (-) Single(t)
    /\ IF response = "ok"
       THEN /\ errorCounts' = deleteCount(errorCounts, "VoicevoxError")
            /\ calls' = [calls EXCEPT !["VoicevoxError"] = 0]
            /\ out' = [NoOut EXCEPT !.op = "voicevoxRestarted",
                                    !.key = "VoicevoxError",
                                    !.origin = "monitor"]
       ELSE /\ out' = [NoOut EXCEPT !.op = "voicevoxRestartFailed",
                                    !.key = "VoicevoxError",
                                    !.origin = "monitor", !.err = 1]
            /\ UNCHANGED <<errorCounts, calls>>
    /\ UNCHANGED <<platform, isActive, webview, sessions>>

\* a client calls the public VoiceMonitor.logError(error)
monitor_logError(error) ==
    /\ UNCHANGED <<healthVars, serviceVars>>
    /\ errorCounts[error.name] < MaxCount
    /\ LET l == logError(errorCounts, tasks, error)
       IN /\ errorCounts' = l.counts
          /\ calls' = [calls EXCEPT ![error.name] = @ + 1]
          /\ tasks' = l.tasks
          /\ BagCardinality(tasks') <= MaxTasks
          /\ out' = [NoOut EXCEPT !.op = "logError", !.origin = "client",
                                  !.key = error.name, !.logged = error.name,
                                  !.esc = l.esc, !.err = l.err]
    /\ UNCHANGED <<platform, isActive, webview, sessions>>

\* executeCommand("cline.toggleVoiceRecognition") with no such command
\* registered: the promise rejects, its .then callback does not run, and
\* nobody observes the rejection
toggleUnregistered(t) ==
    /\ UNCHANGED <<healthVars, serviceVars>>
    /\ t.pc = "call"
    /\ tasks' = tasks (-) Single(t)
    /\ out' = [NoOut EXCEPT !.op = "commandRejected", !.origin = t.origin]
    /\ UNCHANGED <<platform, isActive, webview, sessions, errorCounts, calls>>

(* -------------------- recognition results ------------------------------ *)
Providers == {"webview", "webspeech"}

\* variant of the recognizer configuration
interimResults_on == TRUE

\* recognition.interimResults as both services configure the recognizer
interimResults == FALSE

\* a transcript is a sequence of characters
Transcripts == {<< >>, <<" ">>, <<"a">>, <<" ", "b">>}

\* String.trim
RECURSIVE trim(_)
trim(text) ==
    IF text = << >> THEN text
    ELSE IF Head(text) = " " THEN trim(Tail(text))
    ELSE IF text[Len(text)] = " " THEN trim(SubSeq(text, 1, Len(text) - 1))
    ELSE text

\* the last entry of event.results that the recognizer reports with an
\* onresult event: non-final results are reported only with interimResults
RecognizerResults ==
    {[isFinal |-> f, transcript |-> x] :
        f \in IF interimResults THEN BOOLEAN ELSE {TRUE}, x \in Transcripts}

\* what an onresult handler does: nothing, or pass a text on
NoText == [pass |-> FALSE, text |-> << >>]
PassText(text) == [pass |-> TRUE, text |-> text]

\* the webview script's recognition.onresult: posts the transcript when it
\* is not the empty string
webview_onresult(result) ==
    IF result.transcript # << >> THEN PassText(result.transcript) ELSE NoText

\* the handler WebSpeechRecognitionService.onResult installs: final results
\* only, trimmed, and only when something is left
WebSpeech_onresult(result) ==
    IF result.isFinal
    THEN LET text == trim(result.transcript)
         IN IF text # << >> THEN PassText(text) ELSE NoText
    ELSE NoText

\* onResult(callback) of the service in use
service_onResult ==
    /\ resultCallback' = TRUE
    /\ out' = [NoOut EXCEPT !.op = "onResult", !.origin = "client"]
    /\ UNCHANGED recognizerVars
    /\ UNCHANGED <<controllerVars, tasks, healthVars, provider, errorCallback,
                   results, posted, handed, permissionVars, synthesisVars,
                   callVars>>

\* the recognizer fires onresult with `result` as the last entry of
\* event.results; `registered` records whether a handler was registered
recognition_onresult(result) ==
    /\ Len(results) < MaxResults
    /\ provider = "webview" => webview
    /\ results' = Append(results,
                         [isFinal |-> result.isFinal,
                          transcript |-> result.transcript,
                          registered |-> resultCallback])
    /\ IF provider = "webview"
       THEN LET m == webview_onresult(result)
            IN /\ posted' = IF m.pass THEN Append(posted, m.text) ELSE posted
               /\ handed' = handed
       ELSE LET m == WebSpeech_onresult(result)
            IN /\ handed' = IF resultCallback /\ m.pass
                            THEN Append(handed, m.text) ELSE handed
               /\ posted' = posted
    /\ out' = [NoOut EXCEPT !.op = "recognitionResult",
                            !.origin = "recognizer"]
    /\ UNCHANGED recognizerVars
    /\ UNCHANGED <<controllerVars, tasks, healthVars, provider,
                   resultCallback, errorCallback, permissionVars,
                   synthesisVars, callVars>>

\* setupWebViewMessageHandling, case "result": the oldest result message
\* arrives and is handed to the handler when one is registered
onDidReceiveMessage_result ==
    /\ posted # << >>
    /\ posted' = Tail(posted)
    /\ handed' = IF resultCallback THEN Append(handed, Head(posted))
                 ELSE handed
    /\ out' = [NoOut EXCEPT !.op = IF resultCallback THEN "resultHanded"
                                   ELSE "resultDropped",
                            !.origin = "webview"]
    /\ UNCHANGED recognizerVars
    /\ UNCHANGED <<controllerVars, tasks, healthVars, provider,
                   resultCallback, errorCallback, results, permissionVars,
                   synthesisVars, callVars>>

(* ------------------- VoiceMonitor: health check ------------------------ *)
\* the callback of startHealthCheck's setInterval: shows the warning when
\* checkHealth() resolved to false
healthCheck_warn(origin, outcome) ==
    IF origin = "timer" /\ outcome = "false" THEN 1 ELSE 0

\* checkHealth() called by `origin` ("timer": the interval callback,
\* "client": a caller of the public method) up to its first await
checkHealth_begin(origin, memory) ==
    /\ IF checkHealth_memory(memory) = "throw"
       THEN LET outcome == checkHealth_catch("throw")
            IN /\ tasks' = tasks
               /\ out' = [NoOut EXCEPT !.op = "checkHealth",
                                       !.origin = origin, !.memory = memory,
                                       !.probe = ProbeResult(outcome),
                                       !.warn = healthCheck_warn(origin,
                                                                 outcome)]
       ELSE /\ BagCardinality(tasks) < MaxTasks
            /\ tasks' = tasks
                          (+) Single(Task("healthFetch", origin, "none", "none"))
            /\ out' = [NoOut EXCEPT !.op = "checkHealth", !.origin = origin,
                                    !.memory = memory]
    /\ UNCHANGED <<controllerVars, healthVars, serviceVars>>

\* the interval of startHealthCheck fires
healthCheckTick(memory) ==
    /\ healthCheckTimer
    /\ checkHealth_begin("timer", memory)

\* a client calls the public VoiceMonitor.checkHealth()
client_checkHealth(memory) == checkHealth_begin("client", memory)

\* checkHealth(): the fetch has settled; its caller goes on
checkHealth_afterFetch(t, response) ==
    /\ t.pc = "healthFetch"
    /\ LET outcome == checkHealth_catch(checkHealth_response(response))
       IN /\ lastHealthCheck' = IF outcome = "true" THEN now
                                ELSE lastHealthCheck
          /\ out' = [NoOut EXCEPT !.op = "checkHealthSettled",
                                  !.origin = t.origin, !.response = response,
                                  !.probe = ProbeResult(outcome),
                                  !.warn = healthCheck_warn(t.origin, outcome)]
    /\ tasks' = tasks (-) Single(t)
    /\ UNCHANGED <<controllerVars, healthCheckTimer, now, serviceVars>>

\* variant that leaves the interval running
monitor_dispose_timer(timer) == timer

\* VoiceMonitor.dispose(): the interval after the call
monitor_dispose_cleared(timer) == FALSE

\* VoiceMonitor.dispose()
monitor_dispose ==
    /\ healthCheckTimer' = monitor_dispose_cleared(healthCheckTimer)
    /\ out' = [NoOut EXCEPT !.op = IF healthCheckTimer THEN "dispose"
                                   ELSE "disposeNoTimer",
                            !.origin = "client"]
    /\ UNCHANGED <<controllerVars, tasks, lastHealthCheck, now, serviceVars>>

\* time passes
timePasses ==
    /\ now < MaxTime
    /\ now' = now + 1
    /\ out' = [NoOut EXCEPT !.op = "timePasses"]
    /\ UNCHANGED <<controllerVars, tasks, healthCheckTimer, lastHealthCheck,
                   serviceVars>>

(* ------------- MacPermissionManager: permission watch ------------------ *)
\* watchPermissionChanges() awaiting its first checkMicrophonePermission()
WatchTask == Task("watchInit", "watch", "none", "none")
\* one run of the interval callback awaiting checkMicrophonePermission()
PollTask == Task("poll", "watch", "none", "none")

\* the state a permission query reports, as the callback's argument is logged
PermissionState(hasPermission) == IF hasPermission THEN "granted" ELSE "denied"

\* variant of the interval callback that reports every poll
poll_always(previous, current) == TRUE

\* the test of the interval callback: currentState !== previousState
poll_changed(previous, current) == current # previous

\* variant that does not look at the session
watchMacPermissions_stops_always(hasPermission) == ~hasPermission

\* the callback VoiceManager.watchMacPermissions registers: it stops the
\* session when the permission was lost while the session is active
watchMacPermissions_stops(hasPermission) == ~hasPermission /\ isActive

\* watchPermissionChanges(): the first permission query has settled;
\* previousState is initialised and the interval is scheduled
watch_afterCheck(t, granted) ==
    /\ t.pc = "watchInit"
    /\ previousState' = checkMicrophonePermission(platform, granted)
    /\ watchTimer' = TRUE
    /\ tasks' = tasks (-) Single(t)
    /\ out' = [NoOut EXCEPT !.op = "watchStarted", !.origin = "watch",
                            !.perm = PermissionState(previousState')]
    /\ UNCHANGED <<controllerVars, healthVars, resultVars, synthesisVars,
                   callVars>>

\* the interval of watchPermissionChanges fires: a permission query starts,
\* whether or not an earlier one is still running
pollTick ==
    /\ watchTimer
    /\ BagCardinality(tasks) < MaxTasks
    /\ tasks' = tasks (+) Single(PollTask)
    /\ out' = [NoOut EXCEPT !.op = "pollTick", !.origin = "watch"]
    /\ UNCHANGED <<controllerVars, healthVars, serviceVars>>

\* the permission query of one run of the interval callback has settled
poll_settle(t, granted) ==
    /\ t.pc = "poll"
    /\ LET currentState == checkMicrophonePermission(platform, granted)
           changed == poll_changed(previousState, currentState)
           stops == changed /\ watchMacPermissions_stops(currentState)
       IN /\ previousState' = IF changed THEN currentState ELSE previousState
          /\ IF stops THEN Stop
             ELSE UNCHANGED <<isActive, sessions>>
          /\ out' = [NoOut EXCEPT
                       !.op = IF changed THEN "permissionChanged"
                              ELSE "permissionSame",
                       !.origin = "watch",
                       !.perm = PermissionState(currentState),
                       !.stop = IF stops THEN stopListening(webview) ELSE 0,
                       !.warn = IF stops THEN 1 ELSE 0]
    /\ tasks' = tasks (-) Single(t)
    /\ UNCHANGED <<platform, webview, errorCounts, calls, healthVars,
                   watchTimer, resultVars, synthesisVars, callVars>>

(* ------------------------ VoicevoxService.speak ------------------------ *)
\* the speak() calls, in the order they are made
SpeakIds == 1..MaxSpeak

\* the states of the promise speak() returns; "idle" is a call not made yet
PromiseStates == {"idle", "pending", "resolved", "rejected"}

\* the messages the script of the playback panel posts
PlaybackMessages == {"playbackComplete", "error"}

\* the next call to be made: the first one not made yet, 0 when all are
NextSpeak(calling) ==
    IF \E id \in SpeakIds : calling[id] = "idle"
    THEN CHOOSE id \in SpeakIds :
            /\ calling[id] = "idle"
            /\ \A other \in SpeakIds : calling[other] = "idle" => id <= other
    ELSE 0

\* the messageListener of a speak() call on a message of the given type:
\* the promise of the call after it
messageListener(state, type) ==
    IF state # "pending" THEN state
    ELSE IF type = "playbackComplete" THEN "resolved"
    ELSE IF type = "error" THEN "rejected"
    ELSE state

\* the panel is gone: its player and the messages of its script go with it
PanelGone ==
    /\ player' = 0
    /\ inbox' = << >>
    /\ UNCHANGED speaking

(* ------------------------ VoiceManager.dispose ------------------------- *)
\* VoicevoxService.dispose(): the panel after the call
VoicevoxService_dispose(hasPanel) == FALSE

\* VoiceManager.dispose(): stop(), synthesisService.dispose() and
\* monitor.dispose(); the status bar item and the output channel hold no
\* timer and no panel.  The service disposed is the one the VoiceManager
\* holds; the playback panel belongs to the one the handler speaks through
VoiceManager_dispose ==
    /\ Stop
    /\ IF synthesisService = voiceSynthesis
       THEN panel' = VoicevoxService_dispose(panel) /\ PanelGone
       ELSE UNCHANGED <<panel, playbackVars>>
    /\ UNCHANGED settingsVars
    /\ healthCheckTimer' = monitor_dispose_cleared(healthCheckTimer)
    /\ out' = [NoOut EXCEPT !.op = "disposeAll", !.origin = "client",
                            !.stop = stopListening(webview)]
    /\ UNCHANGED <<platform, webview, errorCounts, calls, tasks,
                   lastHealthCheck, now, resultVars, permissionVars, callVars>>

\* VoicevoxService.speak(): creates the playback panel when there is none,
\* registers the call's message listener and posts the audio, which the
\* panel's script gives to its single player
speak ==
    /\ \E id \in SpeakIds :
          /\ id = NextSpeak(speaking)
          /\ speaking' = [speaking EXCEPT ![id] = "pending"]
          /\ player' = id
    /\ panel' = TRUE
    /\ out' = [NoOut EXCEPT !.op = "speak", !.origin = "client"]
    /\ UNCHANGED <<controllerVars, tasks, healthVars, resultVars,
                   permissionVars, callVars, inbox, settingsVars>>

(* --------------------- ClineVoiceCommandHandler ------------------------ *)
\* A spoken command is a sequence of pieces; the pieces are the phrases the
\* handler knows, written "kanji" as the tables have them and "kana" as the
\* recognizer may spell them, the punctuation marks, white space, and a
\* piece of other speech.
openFile == <<"fairu-wo", "hiraite:kanji">>
openFile_kana == <<"fairu-wo", "hiraite:kana">>
save == <<"hozon:kanji">>
save_kana == <<"hozon:kana">>
seebu == <<"seebu:katakana">>
seebu_kana == <<"seebu:hiragana">>
help == <<"herupu">>
Punctuation == {"touten", "kuten"}
Pieces ==
    {"fairu-wo", "hiraite:kanji", "hiraite:kana", "hozon:kanji", "hozon:kana",
     "seebu:katakana", "seebu:hiragana", "herupu", "shite", " "}
        \cup Punctuation

\* the spoken commands of at most MaxLen pieces
CommandTexts == UNION {[1..n -> Pieces] : n \in 0..MaxLen}

\* String.includes of a phrase: the phrase occurs at position i of text
OccursAt(text, phrase, i) ==
    /\ i + Len(phrase) - 1 <= Len(text)
    /\ \A k \in 1..Len(phrase) : text[i + k - 1] = phrase[k]

includes(text, phrase) == \E i \in 1..(Len(text) + 1) : OccursAt(text, phrase, i)

\* String.replace(/[...]/g, ""): every piece of `removed` is taken out
RECURSIVE remove(_, _)
remove(text, removed) ==
    IF text = << >> THEN << >>
    ELSE IF Head(text) \in removed THEN remove(Tail(text), removed)
    ELSE <<Head(text)>> \o remove(Tail(text), removed)

\* String.replace(new RegExp(incorrect, "g"), correct): every occurrence,
\* from the left and without overlap
RECURSIVE replace(_, _, _)
replace(text, incorrect, correct) ==
    IF text = << >> THEN << >>
    ELSE IF OccursAt(text, incorrect, 1)
    THEN correct \o replace(SubSeq(text, Len(incorrect) + 1, Len(text)),
                            incorrect, correct)
    ELSE <<Head(text)>> \o replace(Tail(text), incorrect, correct)

\* the table of misrecognition corrections, in its order
corrections ==
    <<[incorrect |-> openFile_kana, correct |-> openFile],
      [incorrect |-> seebu_kana, correct |-> seebu],
      [incorrect |-> save_kana, correct |-> save]>>

\* variant that leaves the punctuation in the command
normalizePunctuation_kept(text) == text

\* preprocessCommand step 2: the punctuation marks are removed
normalizePunctuation(text) == remove(text, Punctuation)

\* preprocessCommand step 3: the corrections from entry i on
RECURSIVE correct(_, _)
correct(text, i) ==
    IF i > Len(corrections) THEN text
    ELSE correct(replace(text, corrections[i].incorrect,
                         corrections[i].correct), i + 1)

preprocessCommand(command) == correct(normalizePunctuation(trim(command)), 1)

\* the responses of the handler
Opened == <<"fairu-wo", "hirakimashita">>
Saved == <<"fairu-wo", "hozon:kanji", "shimashita">>
HelpText ==
    <<"riyou-kanou-na-komando", "fairu-wo", "hiraite:kanji", "touten",
      "hozon:kanji", "touten", "herupu">>
NotRecognized == <<"komando-wo-ninshiki-dekimasen-deshita">>
ExecutionError == <<"komando-no-jikkou-chuu-ni-eraa">>

\* the command table, in its order: the phrase, the host command its action
\* executes ("none": no host command) and the text its action returns
commandPatterns ==
    <<[pattern |-> openFile, host |-> "workbench.action.files.openFile",
       response |-> Opened],
      [pattern |-> save, host |-> "workbench.action.files.save",
       response |-> Saved],
      [pattern |-> help, host |-> "none", response |-> HelpText]>>

\* the search loop run to its end: the last matching entry
RECURSIVE match_last(_, _)
match_last(command, i) ==
    IF i > Len(commandPatterns) THEN 0
    ELSE LET later == match_last(command, i + 1)
         IN IF later # 0 THEN later
            ELSE IF includes(command, commandPatterns[i].pattern) THEN i
            ELSE 0

\* the search loop of executeClineCommand from entry i on: the entry whose
\* handler runs, 0 when the loop ends without a match
RECURSIVE match(_, _)
match(command, i) ==
    IF i > Len(commandPatterns) THEN 0
    ELSE IF includes(command, commandPatterns[i].pattern) THEN i
    ELSE match(command, i + 1)

\* variant of the search in which the last matching entry wins
findPattern_last(command) == match_last(command, 1)

\* the search loop of executeClineCommand
findPattern(command) == match(command, 1)

\* variant of an action that tries its host command a second time
handler_retry(entry, hostOk) ==
    IF entry.host = "none" THEN [result |-> "resolved",
                                 value |-> entry.response, host |-> << >>]
    ELSE [result |-> IF hostOk THEN "resolved" ELSE "rejected",
          value |-> IF hostOk THEN entry.response ELSE << >>,
          host |-> IF hostOk THEN <<[command |-> entry.host, ok |-> TRUE]>>
                   ELSE <<[command |-> entry.host, ok |-> FALSE],
                          [command |-> entry.host, ok |-> FALSE]>>]

\* the action of a table entry: the host commands it executed and what it
\* returned; a failed host command rejects it
handler(entry, hostOk) ==
    IF entry.host = "none" THEN [result |-> "resolved",
                                 value |-> entry.response, host |-> << >>]
    ELSE [result |-> IF hostOk THEN "resolved" ELSE "rejected",
          value |-> IF hostOk THEN entry.response ELSE << >>,
          host |-> <<[command |-> entry.host, ok |-> hostOk]>>]

\* variant of the fall-through that opens the file dialog
executeClineCommand_nomatch_opens(hostOk) ==
    handler(commandPatterns[1], hostOk)

\* executeClineCommand after its loop found nothing
executeClineCommand_nomatch(hostOk) ==
    [result |-> "resolved", value |-> NotRecognized, host |-> << >>]

\* executeClineCommand(command); its catch logs and rethrows
executeClineCommand(command, hostOk) ==
    LET i == findPattern(command)
    IN IF i = 0 THEN executeClineCommand_nomatch(hostOk)
       ELSE handler(commandPatterns[i], hostOk)

\* the catch of handleCommand: the error is logged and the fixed error text
\* is returned
handleCommand_catch(r) ==
    IF r.result = "rejected" THEN [r EXCEPT !.result = "resolved",
                                            !.value = ExecutionError]
    ELSE r

\* handleCommand(command) with the host command succeeding or failing
handleCommand(hostOk) ==
    /\ ret.fn = "none"
    /\ LET command == preprocessCommand(ret.text)
           r == handleCommand_catch(executeClineCommand(command, hostOk))
       IN ret' = [ret EXCEPT !.fn = "handleCommand", !.command = command,
                             !.result = r.result, !.value = r.value,
                             !.error = IF r.result = "rejected"
                                       THEN "Error" ELSE "none",
                             !.host = r.host]
    /\ out' = [NoOut EXCEPT !.op = "handleCommand", !.origin = "client"]
    /\ UNCHANGED <<controllerVars, tasks, healthVars, resultVars,
                   permissionVars, synthesisVars>>

(* --------------------------- VoicevoxService --------------------------- *)
\* HTTP statuses of the VOICEVOX engine; 0 stands for a fetch that rejected
Statuses == {200, 201, 400, 404, 500, 503}
NoResponse == 0

\* Response.ok
isOk(status) == status \in 200..299

\* one run of synthesize(): the status of the query request, whether the
\* body of its response parses, the status of the synthesis request and
\* whether the body of its response can be read
SynthesisRun(query, json, synthesis, body) ==
    [query |-> query, json |-> json, synthesis |-> synthesis, body |-> body]

\* every path through synthesize(); the answers that a path does not ask
\* for are left at 200 / TRUE
SynthesisRuns ==
    {SynthesisRun(q, TRUE, 200, TRUE) :
        q \in {s \in Statuses \cup {NoResponse} : ~isOk(s)}}
      \cup {SynthesisRun(q, FALSE, 200, TRUE) :
               q \in {s \in Statuses : isOk(s)}}
      \cup {SynthesisRun(q, TRUE, s, TRUE) :
               q \in {s \in Statuses : isOk(s)},
               s \in {s \in Statuses \cup {NoResponse} : ~isOk(s)}}
      \cup {SynthesisRun(q, TRUE, s, b) :
               q \in {s \in Statuses : isOk(s)},
               s \in {s \in Statuses : isOk(s)}, b \in BOOLEAN}

\* a request of synthesize() and how it went
Request(name, status, body) ==
    [request |-> name, status |-> status, body |-> body]

\* the try block of synthesize(): "throw" an error thrown or a promise
\* rejected at an await inside the block, "return" a promise handed back by
\* the return statement, with `settles` saying how that promise settles
synthesize_try(r) ==
    LET query(b) == Request("audio_query", r.query, b)
        synthesis(b) == Request("synthesis", r.synthesis, b)
    IN IF r.query = NoResponse
       THEN [exit |-> "throw", error |-> "TypeError", status |-> 0,
             requests |-> <<query("none")>>, settles |-> "none"]
       ELSE IF ~isOk(r.query)
       THEN [exit |-> "throw", error |-> "VoicevoxError", status |-> r.query,
             requests |-> <<query("none")>>, settles |-> "none"]
       ELSE IF ~r.json
       THEN [exit |-> "throw", error |-> "SyntaxError", status |-> 0,
             requests |-> <<query("failed")>>, settles |-> "none"]
       ELSE IF r.synthesis = NoResponse
       THEN [exit |-> "throw", error |-> "TypeError", status |-> 0,
             requests |-> <<query("read"), synthesis("none")>>,
             settles |-> "none"]
       ELSE IF ~isOk(r.synthesis)
       THEN [exit |-> "throw", error |-> "VoicevoxError",
             status |-> r.synthesis,
             requests |-> <<query("read"), synthesis("none")>>,
             settles |-> "none"]
       ELSE [exit |-> "return",
             error |-> IF r.body THEN "none" ELSE "TypeError", status |-> 0,
             requests |-> <<query("read"),
                            synthesis(IF r.body THEN "read" ELSE "failed")>>,
             settles |-> IF r.body THEN "resolved" ELSE "rejected"]

\* the catch of synthesize(): a VoicevoxError is rethrown, anything else
\* thrown in the block becomes a VoicevoxError with status 500; a promise
\* the block returned is not awaited in it and passes by the catch
synthesize_catch(o) ==
    IF o.exit = "throw"
    THEN IF o.error = "VoicevoxError" THEN [o EXCEPT !.settles = "rejected"]
         ELSE [o EXCEPT !.settles = "rejected", !.error = "VoicevoxError",
                        !.status = 500]
    ELSE o

\* synthesize(text) with the engine answering as in run r
synthesize(r) ==
    /\ LET o == synthesize_catch(synthesize_try(r))
       IN ret' = [NoRet EXCEPT !.fn = "synthesize", !.result = o.settles,
                               !.error = o.error, !.status = o.status,
                               !.requests = o.requests]
    /\ out' = [NoOut EXCEPT !.op = "synthesize", !.origin = "client"]
    /\ UNCHANGED <<controllerVars, tasks, healthVars, resultVars,
                   permissionVars, synthesisVars>>

\* VoicevoxService.dispose()
synthesisService_dispose ==
    /\ panel' = VoicevoxService_dispose(panel)
    /\ PanelGone
    /\ UNCHANGED settingsVars
    /\ out' = [NoOut EXCEPT !.op = "disposeSynthesis", !.origin = "client"]
    /\ UNCHANGED <<controllerVars, tasks, healthVars, resultVars,
                   permissionVars, callVars>>

(* ---------------------- recognition errors ----------------------------- *)
\* the error texts a webview posts: those of WebviewErrorTexts and the
\* localisation of an error code the script has no text for
ErrorTexts == WebviewErrorTexts \cup {getErrorMessage("aborted")}

\* WebViewVoiceService.onError(callback)
service_onError ==
    /\ provider = "webview"
    /\ errorCallback' = TRUE
    /\ out' = [NoOut EXCEPT !.op = "onError", !.origin = "client"]
    /\ UNCHANGED recognizerVars
    /\ UNCHANGED <<controllerVars, tasks, healthVars, provider,
                   resultCallback, results, posted, handed, permissionVars,
                   synthesisVars, callVars>>

\* the extension host handles an error message of the webview: with a
\* handler registered the text "Canceled" is dropped and any other text is
\* handed over as a VoiceRecognitionError with its mapped code
onDidReceiveMessage_error(text) ==
    /\ provider = "webview"
    /\ webview
    /\ out' = [NoOut EXCEPT
                 !.op = IF ~errorCallback THEN "errorNoHandler"
                        ELSE IF text = <<"Canceled">> THEN "errorDropped"
                        ELSE "errorDelivered",
                 !.origin = "webview",
                 !.message = text,
                 !.key = IF errorCallback /\ text # <<"Canceled">>
                         THEN VoiceRecognitionError(text,
                                                    mapErrorCode(text)).name
                         ELSE "none",
                 !.code = IF errorCallback /\ text # <<"Canceled">>
                          THEN VoiceRecognitionError(text,
                                                     mapErrorCode(text)).code
                          ELSE "none"]
    /\ UNCHANGED recognizerVars
    /\ UNCHANGED <<controllerVars, tasks, healthVars, serviceVars>>

(* -------------- MacPermissionManager: permission queries --------------- *)
\* what exec('osascript ...') gives: the text "true", another text, or a
\* rejection; osascript exists on darwin only
QueryAnswers == {"true", "false", "error"}
exec_osascript(p, answer) == IF p = "darwin" THEN answer ELSE "error"

\* the try block of checkMicrophonePermission()
checkMicrophonePermission_try(stdout) ==
    IF stdout = "error" THEN "throw"
    ELSE IF stdout = "true" THEN "true"
    ELSE "false"

\* variant of the catch that lets the failure of the query through
checkMicrophonePermission_catch_rethrows(outcome) == outcome

\* the catch of checkMicrophonePermission(): false
checkMicrophonePermission_catch(outcome) ==
    IF outcome = "throw" THEN "false" ELSE outcome

\* how the promise of checkMicrophonePermission() settles: "true", "false",
\* or "throw" (rejected)
checkMicrophonePermission_settles(p, answer) ==
    checkMicrophonePermission_catch(
        checkMicrophonePermission_try(exec_osascript(p, answer)))

\* the answer of a permission query of run r: the query fails, or tells
\* whether the permission is granted
QueryAnswer(granted, fails) ==
    IF fails THEN "error" ELSE IF granted THEN "true" ELSE "false"

\* the try block of requestMicrophonePermission() in run r, the permission
\* queries failing or not: exit "return" with a value or "throw", and the
\* number of dialogs shown
requestMicrophonePermission_try(p, r, fails) ==
    LET check1 == checkMicrophonePermission_settles(
                      p, QueryAnswer(r.check1, fails))
        check2 == checkMicrophonePermission_settles(
                      p, QueryAnswer(r.check2, fails))
        exit(kind, value, dialogs) ==
            [exit |-> kind, value |-> value, dialogs |-> dialogs]
    IN IF check1 = "throw" THEN exit("throw", "none", 0)
       ELSE IF check1 = "true" THEN exit("return", "true", 0)
       ELSE IF r.action # "accept" THEN exit("return", "false", 1)
       ELSE IF ~r.openOk THEN exit("throw", "none", 1)
       ELSE IF r.granted # "accept" THEN exit("return", "false", 2)
       ELSE IF r.restart # "accept" THEN exit("return", "false", 3)
       ELSE IF ~r.reloadOk THEN exit("throw", "none", 3)
       ELSE IF check2 = "throw" THEN exit("throw", "none", 3)
       ELSE exit("return", check2, 3)

\* the catch of requestMicrophonePermission(): the error is logged and
\* false is returned
requestMicrophonePermission_catch(o) ==
    IF o.exit = "throw" THEN [o EXCEPT !.exit = "return", !.value = "false"]
    ELSE o

\* what the system and the user answered in run r
Answers(r, fails) ==
    <<QueryAnswer(r.check1, fails), r.action,
      IF r.openOk THEN "opened" ELSE "error", r.granted, r.restart,
      IF r.reloadOk THEN "reloaded" ELSE "error",
      QueryAnswer(r.check2, fails)>>

\* a client calls checkMicrophonePermission()
client_checkMicrophonePermission(answer) ==
    /\ LET o == checkMicrophonePermission_settles(platform, answer)
       IN ret' = [NoRet EXCEPT
                    !.fn = "checkMicrophonePermission",
                    !.answers = <<answer>>,
                    !.result = IF o = "throw" THEN "rejected" ELSE "resolved",
                    !.value = IF o = "throw" THEN << >> ELSE <<o>>,
                    !.error = IF o = "throw" THEN "Error" ELSE "none"]
    /\ out' = [NoOut EXCEPT !.op = "checkMicrophonePermission",
                            !.origin = "client"]
    /\ UNCHANGED <<controllerVars, tasks, healthVars, resultVars,
                   permissionVars, synthesisVars>>

\* a client calls requestMicrophonePermission()
client_requestMicrophonePermission(r, fails) ==
    /\ LET o == requestMicrophonePermission_catch(
                    requestMicrophonePermission_try(platform, r, fails))
       IN ret' = [NoRet EXCEPT
                    !.fn = "requestMicrophonePermission",
                    !.answers = Answers(r, fails),
                    !.result = IF o.exit = "throw" THEN "rejected"
                               ELSE "resolved",
                    !.value = IF o.exit = "throw" THEN << >> ELSE <<o.value>>,
                    !.error = IF o.exit = "throw" THEN "Error" ELSE "none",
                    !.dialogs = o.dialogs]
    /\ out' = [NoOut EXCEPT !.op = "requestMicrophonePermission",
                            !.origin = "client"]
    /\ UNCHANGED <<controllerVars, tasks, healthVars, resultVars,
                   permissionVars, synthesisVars>>

\* a client calls watchPermissionChanges(callback): the first permission
\* query starts
client_watchPermissionChanges ==
    /\ ~watchTimer
    /\ tasks = EmptyBag
    /\ tasks' = Single(WatchTask)
    /\ out' = [NoOut EXCEPT !.op = "watchPermissionChanges",
                            !.origin = "client"]
    /\ UNCHANGED <<controllerVars, healthVars, serviceVars>>

(* ------------------ WebViewVoiceService: listening --------------------- *)
\* one call of startListening() awaiting its permission query
ListenTask == Task("listen", "client", "none", "none")

\* createWebViewPanel() is called only when the service has no webview
panelCreated(hasWebview, s) ==
    IF s.result = "posted" /\ ~hasWebview THEN 1 ELSE 0

\* a client calls startListening(): the permission query starts
service_startListening ==
    /\ BagCardinality(tasks) < MaxTasks
    /\ tasks' = tasks (+) Single(ListenTask)
    /\ out' = [NoOut EXCEPT !.op = "startListening", !.origin = "client"]
    /\ UNCHANGED <<controllerVars, healthVars, serviceVars>>

\* startListening(): the permission query has settled and the call runs
\* to its end as in run r
startListening_afterCheck(t, r) ==
    /\ t = ListenTask
    /\ LET s == startListening(platform, webview, r)
       IN /\ sessions + s.start <= MaxTasks + 1
          /\ webview' = s.webview
          /\ sessions' = sessions + s.start
          /\ out' = [NoOut EXCEPT
                       !.op = CASE s.result = "posted" -> "listening"
                                [] s.result = "silent" -> "listenSilent"
                                [] OTHER -> "listenThrew",
                       !.origin = "client",
                       !.perm = PermissionState(
                                    checkMicrophonePermission(platform,
                                                              r.granted)),
                       !.start = s.start, !.err = s.err,
                       !.created = panelCreated(webview, s)]
    /\ tasks' = tasks (-) Single(t)
    /\ UNCHANGED <<platform, isActive, errorCounts, calls, healthVars,
                   serviceVars>>

\* a client calls stopListening()
service_stopListening ==
    /\ sessions' = IF webview THEN 0 ELSE sessions
    /\ out' = [NoOut EXCEPT !.op = "stopListening", !.origin = "client",
                            !.stop = stopListening(webview)]
    /\ UNCHANGED <<platform, isActive, webview, errorCounts, calls, tasks,
                   healthVars, serviceVars>>

\* a client calls WebViewVoiceService.dispose(): stopListening(), then
\* the panel is disposed, whose onDidDispose forgets panel and webview
service_dispose ==
    /\ webview' = FALSE
    /\ sessions' = 0
    /\ out' = [NoOut EXCEPT !.op = "disposeRecognition", !.origin = "client",
                            !.stop = stopListening(webview)]
    /\ UNCHANGED <<platform, isActive, errorCounts, calls, tasks, healthVars,
                   serviceVars>>

\* the user closes the recognition panel
panel_onDidDispose ==
    /\ webview
    /\ webview' = FALSE
    /\ sessions' = 0
    /\ out' = [NoOut EXCEPT !.op = "panelClosed", !.origin = "user"]
    /\ UNCHANGED <<platform, isActive, errorCounts, calls, tasks, healthVars,
                   serviceVars>>

(* ---------------------- VoicevoxService: playback ----------------------- *)
\* a message of the panel's script; `play` is the call whose audio it is
\* about, which the message itself does not carry
PlaybackMessage(type, id) == [type |-> type, play |-> id]

\* player.onended of the panel's script: posts 'playbackComplete'
player_onended ==
    /\ player # 0
    /\ inbox' = Append(inbox, PlaybackMessage("playbackComplete", player))
    /\ player' = 0
    /\ out' = [NoOut EXCEPT !.op = "ended", !.origin = "panel"]
    /\ UNCHANGED <<controllerVars, tasks, healthVars, resultVars,
                   permissionVars, callVars, panel, speaking, settingsVars>>

\* player.play() of the panel's script rejecting: posts 'error'
player_play_catch ==
    /\ player # 0
    /\ inbox' = Append(inbox, PlaybackMessage("error", player))
    /\ player' = 0
    /\ out' = [NoOut EXCEPT !.op = "playFailed", !.origin = "panel"]
    /\ UNCHANGED <<controllerVars, tasks, healthVars, resultVars,
                   permissionVars, callVars, panel, speaking, settingsVars>>

\* the promises after the webview delivers a message: every messageListener
\* registered on it is called with the message
deliver(calling, message) ==
    [id \in SpeakIds |-> messageListener(calling[id], message.type)]

\* webview.onDidReceiveMessage of the playback panel delivering the oldest
\* message posted
onDidReceiveMessage_playback ==
    /\ inbox # << >>
    /\ speaking' = deliver(speaking, Head(inbox))
    /\ inbox' = Tail(inbox)
    /\ out' = [NoOut EXCEPT !.op = "playbackMessage", !.origin = "panel"]
    /\ UNCHANGED <<controllerVars, tasks, healthVars, resultVars,
                   permissionVars, callVars, panel, player, settingsVars>>

\* the user closes the playback panel: panel.onDidDispose
playbackPanel_onDidDispose ==
    /\ panel
    /\ panel' = FALSE
    /\ PanelGone
    /\ out' = [NoOut EXCEPT !.op = "playbackPanelClosed", !.origin = "panel"]
    /\ UNCHANGED <<controllerVars, tasks, healthVars, resultVars,
                   permissionVars, callVars, settingsVars>>

(* ---------------------- VoiceManager.updateSettings --------------------- *)
\* the endpoints and the speakers a VoicevoxService may be configured with
Endpoints == {"localhost:50021", "remote:50021"}
Speakers == {1, 2}

Services == {VoicevoxConfig(e, sp) : e \in Endpoints, sp \in Speakers}

\* the service the constructor of VoiceManager builds
DefaultService == VoicevoxConfig("localhost:50021", 1)

\* a setting that is not given
NoEndpoint == "none"
NoSpeaker == 0

\* the settings object: voicevoxEndpoint and voicevoxSpeakerId, each given
\* or not
Settings ==
    [voicevoxEndpoint : Endpoints \cup {NoEndpoint},
     voicevoxSpeakerId : Speakers \cup {NoSpeaker}]

\* updateSettings(settings): the service the VoiceManager holds afterwards
updateSettings_service(current, settings) ==
    IF settings.voicevoxEndpoint # NoEndpoint
    THEN VoicevoxConfig(settings.voicevoxEndpoint,
                        IF settings.voicevoxSpeakerId # NoSpeaker
                        THEN settings.voicevoxSpeakerId ELSE 1)
    ELSE current

\* VoiceManager.updateSettings(settings)
updateSettings(settings) ==
    /\ synthesisService' = updateSettings_service(synthesisService, settings)
    /\ out' = [NoOut EXCEPT !.op = IF settings.voicevoxEndpoint # NoEndpoint
                                   THEN "settingsInstalled"
                                   ELSE "settingsKept",
                            !.origin = "client"]
    /\ UNCHANGED <<controllerVars, tasks, healthVars, resultVars,
                   permissionVars, callVars, panel, playbackVars,
                   voiceSynthesis>>

FeedbackTask == Task("feedback", "client", "none", "none")

\* ClineVoiceCommandHandler.provideFeedback(message) up to its first await:
\* synthesize(message) is called on the handler's service
provideFeedback ==
    /\ BagCardinality(tasks) < MaxTasks
    /\ tasks' = tasks (+) Single(FeedbackTask)
    /\ ret' = [NoRet EXCEPT !.fn = "provideFeedback",
                            !.service = voiceSynthesis]
    /\ out' = [NoOut EXCEPT !.op = "feedbackSynthesize", !.origin = "client"]
    /\ UNCHANGED <<controllerVars, healthVars, resultVars, permissionVars,
                   synthesisVars>>

\* provideFeedback after synthesize() settled: the audio is handed to
\* speak() of the same service, or the message is shown as text
provideFeedback_afterSynthesize(t, resolved) ==
    /\ t.pc = "feedback"
    /\ tasks' = tasks (-) Single(t)
    /\ IF resolved
       THEN /\ \E id \in SpeakIds :
                  /\ id = NextSpeak(speaking)
                  /\ speaking' = [speaking EXCEPT ![id] = "pending"]
                  /\ player' = id
            /\ panel' = TRUE
            /\ UNCHANGED inbox
       ELSE UNCHANGED <<panel, playbackVars>>
    /\ ret' = [NoRet EXCEPT !.fn = "provideFeedback",
                            !.service = voiceSynthesis]
    /\ out' = [NoOut EXCEPT !.op = IF resolved THEN "feedbackSpeak"
                                   ELSE "feedbackText",
                            !.origin = "client"]
    /\ UNCHANGED <<controllerVars, healthVars, resultVars, permissionVars,
                   settingsVars>>

(* --------------------- WebSpeechRecognitionService ---------------------- *)
\* the recognizer: not started, started, or stopping (stop() was called and
\* its end event has not fired yet)
RecognizerStates == {"idle", "running", "stopping"}

\* what navigator.permissions.query and getUserMedia answer to one call of
\* startListening(): the permission state or a rejection, and whether the
\* microphone can be opened
WebStartRuns ==
    [query : {"granted", "prompt", "denied", "rejected"}, media : BOOLEAN]

\* recognition.start(): raises InvalidStateError on a started recognizer
recognition_start(rec) ==
    IF rec = "idle" THEN [recognizing |-> "running", exit |-> "return"]
    ELSE [recognizing |-> rec, exit |-> "throw"]

\* recognition.stop(): the recognizer ends after it has returned its result
recognition_stop(rec) == IF rec = "running" THEN "stopping" ELSE rec

\* the try block of startListening() after its guard
WebSpeech_startListening_try(listening, rec, r) ==
    IF r.query = "rejected"
    THEN [isListening |-> listening, recognizing |-> rec, exit |-> "throw",
          error |-> "TypeError"]
    ELSE IF r.query = "denied"
    THEN [isListening |-> listening, recognizing |-> rec, exit |-> "throw",
          error |-> "not-allowed"]
    ELSE IF ~r.media
    THEN [isListening |-> listening, recognizing |-> rec, exit |-> "throw",
          error |-> "NotFoundError"]
    ELSE LET started == recognition_start(rec)
         IN [isListening |-> TRUE, recognizing |-> started.recognizing,
             exit |-> started.exit,
             error |-> IF started.exit = "throw" THEN "InvalidStateError"
                       ELSE "none"]

\* the catch of startListening(): a VoiceRecognitionError is rethrown,
\* anything else becomes a VoiceRecognitionError with code audio-capture
WebSpeech_startListening_catch(o) ==
    IF o.exit = "throw" /\ o.error \notin VoiceRecognitionErrorCode
    THEN [o EXCEPT !.error = "audio-capture"]
    ELSE o

WebStartTask == Task("webStart", "client", "none", "none")

\* WebSpeechRecognitionService.startListening() up to its first await
WebSpeech_startListening ==
    /\ provider = "webspeech"
    /\ IF isListening
       THEN /\ UNCHANGED tasks
            /\ out' = [NoOut EXCEPT !.op = "webStartSkipped",
                                    !.origin = "client"]
       ELSE /\ BagCardinality(tasks) < MaxTasks
            /\ tasks' = tasks (+) Single(WebStartTask)
            /\ out' = [NoOut EXCEPT !.op = "webStartCalled",
                                    !.origin = "client"]
    /\ UNCHANGED <<controllerVars, healthVars, serviceVars>>

\* startListening() after the permission query and getUserMedia settled
WebSpeech_startListening_afterCheck(t, r) ==
    /\ t.pc = "webStart"
    /\ tasks' = tasks (-) Single(t)
    /\ LET o == WebSpeech_startListening_catch(
                    WebSpeech_startListening_try(isListening, recognizing, r))
       IN /\ isListening' = o.isListening
          /\ recognizing' = o.recognizing
          /\ out' = [NoOut EXCEPT
                       !.op = IF o.exit = "return" THEN "webStarted"
                              ELSE "webStartFailed",
                       !.origin = "client", !.code = o.error,
                       !.start = IF o.exit = "return" THEN 1 ELSE 0]
    /\ UNCHANGED <<controllerVars, healthVars, provider, resultCallback,
                   errorCallback, results, posted, handed, permissionVars,
                   synthesisVars, callVars>>

\* WebSpeechRecognitionService.stopListening()
WebSpeech_stopListening ==
    /\ provider = "webspeech"
    /\ IF ~isListening
       THEN /\ UNCHANGED recognizerVars
            /\ out' = [NoOut EXCEPT !.op = "webStopSkipped",
                                    !.origin = "client"]
       ELSE /\ isListening' = FALSE
            /\ recognizing' = recognition_stop(recognizing)
            /\ out' = [NoOut EXCEPT !.op = "webStopped", !.origin = "client",
                                    !.stop = 1]
    /\ UNCHANGED <<controllerVars, tasks, healthVars, provider,
                   resultCallback, errorCallback, results, posted, handed,
                   permissionVars, synthesisVars, callVars>>

\* event.error of the recognizer's error event
RecognitionErrors == VoiceRecognitionErrorCode \cup {"aborted"}

\* handleError: the code of the VoiceRecognitionError it builds
handleError_code(error) ==
    IF error \in VoiceRecognitionErrorCode THEN error ELSE "not-allowed"

\* recognition.onerror = handleError: the recognizer, started, fires an
\* error event and is no longer started
WebSpeech_handleError(error) ==
    /\ provider = "webspeech"
    /\ recognizing # "idle"
    /\ isListening' = FALSE
    /\ recognizing' = "idle"
    /\ out' = [NoOut EXCEPT !.op = "webError", !.origin = "recognizer",
                            !.code = handleError_code(error),
                            !.err = IF errorCallback THEN 1 ELSE 0]
    /\ UNCHANGED <<controllerVars, tasks, healthVars, provider,
                   resultCallback, errorCallback, results, posted, handed,
                   permissionVars, synthesisVars, callVars>>

\* the end event of the recognizer after stop(); the service has no handler
\* for it
recognition_onend ==
    /\ provider = "webspeech"
    /\ recognizing = "stopping"
    /\ recognizing' = "idle"
    /\ out' = [NoOut EXCEPT !.op = "webEnded", !.origin = "recognizer"]
    /\ UNCHANGED <<controllerVars, tasks, healthVars, provider,
                   resultCallback, errorCallback, results, posted, handed,
                   isListening, permissionVars, synthesisVars, callVars>>

(* --------------------------- specifications ---------------------------- *)
\* nothing is scheduled by MacPermissionManager yet and VoicevoxService has
\* no panel
InitServices ==
    /\ watchTimer = FALSE
    /\ previousState = FALSE
    /\ panel = FALSE
    /\ speaking = [id \in SpeakIds |-> "idle"]
    /\ player = 0
    /\ inbox = << >>
    /\ isListening = FALSE
    /\ recognizing = "idle"
    /\ synthesisService = DefaultService
    /\ voiceSynthesis = synthesisService

Init ==
    /\ platform \in Platforms
    /\ isActive = FALSE
    /\ webview = FALSE
    /\ sessions = 0
    /\ errorCounts = [k \in ErrorKeys |-> 0]
    /\ tasks = EmptyBag
    /\ calls = [k \in ErrorKeys |-> 0]
    /\ out = NoOut
    /\ healthCheckTimer = TRUE
    /\ lastHealthCheck = 0
    /\ now = 0
    /\ provider = "webview"
    /\ resultCallback = TRUE
    /\ errorCallback = TRUE
    /\ results = << >>
    /\ posted = << >>
    /\ handed = << >>
    /\ InitServices
    /\ ret = NoRet

\* the extension: the monitor is reached through the VoiceManager only
Next ==
    \/ InvokeToggle
    \/ \E t \in BagToSet(tasks) : toggleVoiceRecognition(t)
    \/ \E t \in BagToSet(tasks), h \in HealthRuns : start_probe(t, h)
    \/ \E t \in BagToSet(tasks), r \in PermissionRuns : start_permission(t, r)
    \/ \E t \in BagToSet(tasks), r \in ListenRuns : start_listen(t, r)
    \/ \E text \in WebviewErrorTexts : webviewError(text)
    \/ \E t \in BagToSet(tasks), settled \in BOOLEAN :
          handleError_afterHelp(t, settled)
    \/ \E ok \in BOOLEAN : onResult(ok)
    \/ closePanel
    \/ \E t \in BagToSet(tasks), c \in DialogChoices :
          restartVoiceRecognition(t, c)

Spec == Init /\ [][Next]_vars

\* VoiceMonitor on its own, as the test suite constructs it: a client calls
\* the public logError and no cline.toggleVoiceRecognition command is
\* registered
NextMonitor ==
    \/ \E e \in MonitorErrors : monitor_logError(e)
    \/ \E t \in BagToSet(tasks), c \in DialogChoices :
          restartVoicevoxService(t, c)
    \/ \E t \in BagToSet(tasks), f \in FetchResults :
          restartVoicevoxService_afterFetch(t, f)
    \/ \E t \in BagToSet(tasks), c \in DialogChoices :
          restartVoiceRecognition(t, c)
    \/ \E t \in BagToSet(tasks) : toggleUnregistered(t)

SpecMonitor == Init /\ [][NextMonitor]_vars

\* VoiceMonitor's health check on its own: the interval callback, callers of
\* the public checkHealth(), dispose(), and the clock
NextHealth ==
    \/ \E m \in MemoryStates : healthCheckTick(m)
    \/ \E m \in MemoryStates : client_checkHealth(m)
    \/ \E t \in BagToSet(tasks), f \in FetchResults :
          checkHealth_afterFetch(t, f)
    \/ monitor_dispose
    \/ timePasses

SpecHealth == Init /\ [][NextHealth]_vars

\* a recognition service on its own, as the test suite constructs it: the
\* panel is open, no handler is registered yet
InitRecognition ==
    /\ platform \in Platforms
    /\ isActive = FALSE
    /\ webview = TRUE
    /\ sessions = 0
    /\ errorCounts = [k \in ErrorKeys |-> 0]
    /\ tasks = EmptyBag
    /\ calls = [k \in ErrorKeys |-> 0]
    /\ out = NoOut
    /\ healthCheckTimer = TRUE
    /\ lastHealthCheck = 0
    /\ now = 0
    /\ provider \in Providers
    /\ resultCallback = FALSE
    /\ errorCallback = FALSE
    /\ results = << >>
    /\ posted = << >>
    /\ handed = << >>
    /\ InitServices
    /\ ret = NoRet

NextRecognition ==
    \/ service_onResult
    \/ \E r \in RecognizerResults : recognition_onresult(r)
    \/ onDidReceiveMessage_result
    \/ service_onError
    \/ \E text \in ErrorTexts : onDidReceiveMessage_error(text)

SpecRecognition == InitRecognition /\ [][NextRecognition]_vars

\* the voice system at the time dispose() may be called: the session on or
\* off, the recognition panel open or not; on darwin the constructor has
\* called watchMacPermissions(), elsewhere the provider never gets a panel
InitLifecycle ==
    /\ platform \in Platforms
    /\ isActive \in BOOLEAN
    /\ webview \in IF platform = "darwin" THEN BOOLEAN ELSE {FALSE}
    /\ sessions = 0
    /\ errorCounts = [k \in ErrorKeys |-> 0]
    /\ tasks = IF platform = "darwin" THEN Single(WatchTask) ELSE EmptyBag
    /\ calls = [k \in ErrorKeys |-> 0]
    /\ out = NoOut
    /\ healthCheckTimer = TRUE
    /\ lastHealthCheck = 0
    /\ now = 0
    /\ provider = "webview"
    /\ resultCallback = TRUE
    /\ errorCallback = TRUE
    /\ results = << >>
    /\ posted = << >>
    /\ handed = << >>
    /\ InitServices
    /\ ret = NoRet

\* the timers of the voice system, the synthesis panel and dispose()
NextLifecycle ==
    \/ \E t \in BagToSet(tasks), granted \in BOOLEAN :
          watch_afterCheck(t, granted)
    \/ pollTick
    \/ \E t \in BagToSet(tasks), granted \in BOOLEAN : poll_settle(t, granted)
    \/ \E memory \in MemoryStates : healthCheckTick(memory)
    \/ \E t \in BagToSet(tasks), response \in FetchResults :
          checkHealth_afterFetch(t, response)
    \/ speak
    \/ VoiceManager_dispose

SpecLifecycle == InitLifecycle /\ [][NextLifecycle]_vars

\* a ClineVoiceCommandHandler and a spoken command
InitCommand ==
    /\ platform \in Platforms
    /\ isActive = FALSE
    /\ webview = FALSE
    /\ sessions = 0
    /\ errorCounts = [k \in ErrorKeys |-> 0]
    /\ tasks = EmptyBag
    /\ calls = [k \in ErrorKeys |-> 0]
    /\ out = NoOut
    /\ healthCheckTimer = TRUE
    /\ lastHealthCheck = 0
    /\ now = 0
    /\ provider = "webview"
    /\ resultCallback = TRUE
    /\ errorCallback = TRUE
    /\ results = << >>
    /\ posted = << >>
    /\ handed = << >>
    /\ InitServices
    /\ \E text \in CommandTexts : ret = [NoRet EXCEPT !.text = text]

NextCommand == \E hostOk \in BOOLEAN : handleCommand(hostOk)

SpecCommand == InitCommand /\ [][NextCommand]_vars

\* a VoicevoxService and its clients
NextSynthesis ==
    \/ \E r \in SynthesisRuns : synthesize(r)
    \/ speak
    \/ synthesisService_dispose

SpecSynthesis == Init /\ [][NextSynthesis]_vars

\* MacPermissionManager and its clients
NextPermission ==
    \/ \E answer \in QueryAnswers : client_checkMicrophonePermission(answer)
    \/ \E r \in PermissionRuns, fails \in BOOLEAN :
          client_requestMicrophonePermission(r, fails)
    \/ client_watchPermissionChanges
    \/ \E t \in BagToSet(tasks), granted \in BOOLEAN :
          watch_afterCheck(t, granted)
    \/ pollTick
    \/ \E t \in BagToSet(tasks), granted \in BOOLEAN : poll_settle(t, granted)

SpecPermission == Init /\ [][NextPermission]_vars

\* a WebViewVoiceService and its clients
NextListening ==
    \/ service_startListening
    \/ \E t \in BagToSet(tasks), r \in ListenRuns :
          startListening_afterCheck(t, r)
    \/ service_stopListening
    \/ panel_onDidDispose
    \/ service_dispose
    \/ \E text \in ErrorTexts : onDidReceiveMessage_error(text)

SpecListening == Init /\ [][NextListening]_vars

\* a VoicevoxService playing audio for its clients
NextPlayback ==
    \/ speak
    \/ player_onended
    \/ player_play_catch
    \/ onDidReceiveMessage_playback
    \/ playbackPanel_onDidDispose
    \/ synthesisService_dispose

SpecPlayback == Init /\ [][NextPlayback]_vars

\* the same, with the audio of the player coming to an end (or failing to
\* start) and the messages of the panel's script being delivered
SpecPlaybackFair ==
    /\ SpecPlayback
    /\ WF_vars(player_onended \/ player_play_catch)
    /\ WF_vars(onDidReceiveMessage_playback)

\* a VoiceManager whose settings are updated while feedback is spoken
NextSettings ==
    \/ \E settings \in Settings : updateSettings(settings)
    \/ provideFeedback
    \/ \E t \in BagToSet(tasks), resolved \in BOOLEAN :
          provideFeedback_afterSynthesize(t, resolved)
    \/ VoiceManager_dispose

SpecSettings == Init /\ [][NextSettings]_vars

\* a WebSpeechRecognitionService with its handlers registered
InitWebSpeech ==
    /\ platform \in Platforms
    /\ isActive = FALSE
    /\ webview = FALSE
    /\ sessions = 0
    /\ errorCounts = [k \in ErrorKeys |-> 0]
    /\ tasks = EmptyBag
    /\ calls = [k \in ErrorKeys |-> 0]
    /\ out = NoOut
    /\ healthCheckTimer = TRUE
    /\ lastHealthCheck = 0
    /\ now = 0
    /\ provider = "webspeech"
    /\ resultCallback = TRUE
    /\ errorCallback = TRUE
    /\ results = << >>
    /\ posted = << >>
    /\ handed = << >>
    /\ InitServices
    /\ ret = NoRet

NextWebSpeech ==
    \/ WebSpeech_startListening
    \/ \E t \in BagToSet(tasks), r \in WebStartRuns :
          WebSpeech_startListening_afterCheck(t, r)
    \/ WebSpeech_stopListening
    \/ \E error \in RecognitionErrors : WebSpeech_handleError(error)
    \/ recognition_onend

SpecWebSpeech == InitWebSpeech /\ [][NextWebSpeech]_vars

TypeOK ==
    /\ platform \in Platforms
    /\ isActive \in BOOLEAN
    /\ webview \in BOOLEAN
    /\ sessions \in 0..(MaxTasks + 1)
    /\ errorCounts \in [ErrorKeys -> 0..MaxCount]
    /\ BagCardinality(tasks) <= MaxTasks
    /\ healthCheckTimer \in BOOLEAN
    /\ lastHealthCheck \in 0..now
    /\ resultCallback \in BOOLEAN
    /\ provider \in Providers
    /\ errorCallback \in BOOLEAN
    /\ watchTimer \in BOOLEAN
    /\ previousState \in BOOLEAN
    /\ panel \in BOOLEAN
    /\ speaking \in [SpeakIds -> PromiseStates]
    /\ player \in 0..MaxSpeak
    /\ Len(inbox) <= MaxSpeak
    /\ isListening \in BOOLEAN
    /\ recognizing \in RecognizerStates
    /\ synthesisService \in Services
    /\ voiceSynthesis \in Services
    /\ Len(results) <= MaxResults

(* ------------------------------ claims --------------------------------- *)
PromptPc(key) == IF key = "VoiceRecognitionError" THEN "promptVoice"
                 ELSE "promptVvx"

RecoverableKeys == {"VoiceRecognitionError", "VoicevoxError"}

\* C1: the counter of an error kind equals the number of logError calls of
\* that kind since its last clear; a logError call raises the counter of its
\* kind by one and leaves the others alone; it escalates exactly once when
\* the count after the increment is >= 3 and not at all when it is 1 or 2.
C1_LogErrorCountsAndEscalates ==
    [][/\ errorCounts' = calls'
       /\ \A k \in ErrorKeys :
            out'.logged = k =>
              /\ errorCounts'[k] = errorCounts[k] + 1
              /\ \A j \in ErrorKeys \ {k} : errorCounts'[j] = errorCounts[j]
              /\ out'.esc = IF errorCounts'[k] >= ERROR_THRESHOLD THEN 1 ELSE 0
              /\ \A r \in RecoverableKeys :
                   Pending(tasks', PromptPc(r)) =
                     Pending(tasks, PromptPc(r))
                       + (IF r = k THEN out'.esc ELSE 0)
              /\ k = "Error" => out'.err = out'.esc]_vars

C1_Witness ==
    /\ out.logged = "VoicevoxError"
    /\ out.esc = 1
    /\ errorCounts["VoicevoxError"] > ERROR_THRESHOLD
    /\ errorCounts["VoiceRecognitionError"] \in 1..2

\* C2: counters are never negative; a step that lowers a counter is a clear
\* by the recovery action of that kind, leaves that counter at zero and
\* leaves the other counters unchanged.
C2_OnlyClearsLowerCounters ==
    [][\A k \in ErrorKeys :
         /\ errorCounts'[k] >= 0
         /\ errorCounts'[k] < errorCounts[k] =>
              /\ errorCounts'[k] = 0
              /\ out'.key = k
              /\ out'.op \in {"restartVoiceRecognition", "voicevoxRestarted"}
              /\ \A j \in ErrorKeys \ {k} : errorCounts'[j] = errorCounts[j]]_vars

C2_Witness ==
    /\ out.op = "voicevoxRestarted"
    /\ errorCounts["VoicevoxError"] = 0
    /\ errorCounts["VoiceRecognitionError"] > 0
    /\ errorCounts["Error"] > 0

\* C3 as stated: a session start that succeeds (or a played voice feedback)
\* resets the count of its kind.
C3_SuccessResetsCount ==
    [][/\ (out'.op = "startOk" /\ out'.start = 1) =>
            errorCounts'["VoiceRecognitionError"] = 0
       /\ out'.op = "feedbackOk" => errorCounts'["VoicevoxError"] = 0]_vars

\* C3: a session start that succeeds, or a voice feedback that is played,
\* leaves every counter as it was: failures are counted since the last clear
\* by a recovery action, whatever succeeded in between.
C3_SuccessKeepsCounts ==
    [][out'.op \in {"startOk", "feedbackOk"} => errorCounts' = errorCounts]_vars

C3_Witness ==
    /\ out.op = "startOk"
    /\ out.start = 1
    /\ isActive
    /\ errorCounts["VoiceRecognitionError"] >= ERROR_THRESHOLD

\* the two toggles of a recognition restart have run and the session is on
RestartSucceeded == 
    /\ isActive
    /\ \A t \in BagToSet(tasks) : t.origin \notin {"restart1", "restart2"}

\* C4: a recovery action clears the counter of its kind only after it has
\* verified the condition: the recognition counter only once the restart has
\* succeeded, the synthesis counter only after an OK re-probe.
C4_ClearOnlyAfterVerified ==
    [][/\ errorCounts'["VoiceRecognitionError"]
            < errorCounts["VoiceRecognitionError"] => RestartSucceeded'
       /\ errorCounts'["VoicevoxError"] < errorCounts["VoicevoxError"] =>
            out'.op = "voicevoxRestarted"]_vars

\* C5: when a recovery action fails, the failure is shown to the user and
\* the counter of its kind is still at or above the threshold.
C5_FailedRecoveryKeepsCount ==
    [][/\ ( /\ out'.op \in {"startUnhealthy", "startFailed"}
            /\ out'.origin \in {"restart1", "restart2"} ) =>
              /\ out'.err >= 1
              /\ errorCounts'["VoiceRecognitionError"] >= ERROR_THRESHOLD
       /\ out'.op = "voicevoxRestartFailed" =>
              /\ out'.err >= 1
              /\ errorCounts'["VoicevoxError"] >= ERROR_THRESHOLD]_vars

\* C6: a logError call whose count is >= 3 starts a further escalation of its
\* kind whatever escalation of that kind is still pending, and it returns
\* with every pending invocation still pending (it waits for none).
C6_EscalationNotSingleFlight ==
    [][\A k \in RecoverableKeys :
         (out'.logged = k /\ errorCounts'[k] >= ERROR_THRESHOLD) =>
            /\ Pending(tasks', PromptPc(k)) = Pending(tasks, PromptPc(k)) + 1
            /\ tasks \sqsubseteq tasks']_vars

\* two recovery actions of the synthesis kind in flight at once
C6_Witness == CopiesIn(FetchTask, tasks) >= 2

\* C7: a start command is posted only by a start() whose probe was healthy
\* and, on darwin, whose permission request returned true; a start() asks
\* for the permission only after its probe was healthy.
C7_StartAfterProbeAndPermission ==
    /\ out.start = 1 =>
         /\ out.probe = "healthy"
         /\ platform = "darwin" => out.perm = "granted"
    /\ out.perm # "none" => out.probe = "healthy"
    /\ out.probe = "unhealthy" => out.perm = "none" /\ out.start = 0
    /\ \A t \in BagToSet(tasks) :
         /\ t.pc \in {"perm", "listen"} => t.probe = "healthy"
         /\ t.perm # "none" => t.probe = "healthy"
         /\ (t.pc = "listen" /\ platform = "darwin") => t.perm = "granted"

C7_Witness ==
    /\ out.op = "startOk"
    /\ out.start = 1
    /\ platform = "darwin"
    /\ out.probe = "healthy"
    /\ out.perm = "granted"

C9_PermissionCancelSilent ==
    [][out'.op = "permCancelled" =>
         /\ isActive' = isActive
         /\ sessions' = sessions
         /\ webview' = webview
         /\ out'.start = 0
         /\ out'.err = 0
         /\ out'.logged = "none"
         /\ errorCounts' = errorCounts
         /\ BagCardinality(tasks') <= BagCardinality(tasks)]_vars

C9_Witness ==
    /\ out.op = "permCancelled"
    /\ out.perm = "denied"
    /\ ~isActive
    /\ sessions = 0

\* C10: no second start command reaches the provider while a session start
\* is outstanding: at most one start has been posted since the last stop.
C10_NoConcurrentSessions == sessions <= 1

\* C11: a recognition error delivered to the controller stops the session in
\* the step that delivers it (the session is inactive, stop went to the
\* provider, the error was counted by the monitor), and its error
\* notification is shown by the time its handling completes: in that step,
\* or, when the permission help is shown first, when the help has settled.
C11_RecognitionErrorFailStop ==
    [][/\ out'.op \in {"recognitionError", "startFailed"} =>
            /\ ~isActive'
            /\ sessions' = 0
            /\ out'.stop = stopListening(webview)
            /\ out'.logged = "VoiceRecognitionError"
            /\ errorCounts'["VoiceRecognitionError"]
                  = errorCounts["VoiceRecognitionError"] + 1
            /\ \/ out'.err >= 1
               \/ Pending(tasks', "help") = Pending(tasks, "help") + 1
       /\ \A t \in BagToSet(tasks) :
            ( /\ t.pc = "help"
              /\ ~t.quiet
              /\ CopiesIn(t, tasks') < CopiesIn(t, tasks) ) =>
                out'.err >= 1]_vars

\* C12: a recognition error whose message indicates cancellation shows no
\* error notification and stops the session, also when the webview reports
\* it while the session is active.
C12_CanceledStopsSilently ==
    [][/\ out'.op \in {"errorIgnored", "recognitionCanceled"} =>
            /\ ~isActive'
            /\ out'.err = 0
       /\ \A t \in BagToSet(tasks) :
            ( /\ t.pc = "help"
              /\ t.quiet
              /\ CopiesIn(t, tasks') < CopiesIn(t, tasks) ) =>
                out'.err = 0]_vars

\* C13: a synthesis or playback failure while a recognized command is being
\* answered leaves the session state alone and is logged with the monitor:
\* the VoicevoxError counter goes up by one.
C13_SynthesisFailureCounted ==
    [][out'.op = "feedbackFailed" =>
         /\ isActive' = isActive
         /\ out'.logged = "VoicevoxError"
         /\ errorCounts'["VoicevoxError"]
               = errorCounts["VoicevoxError"] + 1]_vars

\* the steps in which stop() ran: the toggle of an active session, and
\* handleError() of a recognition error
StopOps == {"stop", "recognitionError", "recognitionCanceled", "startFailed"}

\* C14: every stop() ends with the session inactive, whether it was active
\* or not and whether or not the provider has a panel to post the stop
\* command to; a stop() of an inactive session leaves the session state and
\* the panel as they were and starts nothing.
C14_StopEndsInactive ==
    [][out'.op \in StopOps =>
         /\ ~isActive'
         /\ out'.stop = stopListening(webview)
         /\ out'.start = 0
         /\ (~isActive => /\ isActive' = isActive
                          /\ webview' = webview
                          /\ sessions' = sessions)]_vars

\* stop() ran while the provider had no panel
C14_Witness ==
    /\ out.op \in StopOps
    /\ out.stop = 0
    /\ ~webview
    /\ ~isActive

\* C15: the session is inactive initially and changes only in a step of
\* start() or stop(); a toggle of an active session performs stop() and ends
\* inactive, a toggle of an inactive session performs start(), and a
\* start() whose probe was healthy, whose permission was granted and whose
\* startListening() did not throw ends active; so the toggle that runs
\* right after a completed start stops the session again.
C15_ToggleAlternates ==
    /\ ~isActive
    /\ [][/\ isActive' # isActive => out'.op \in StopOps \cup {"startOk"}
          /\ out'.op = "stop" => isActive /\ ~isActive'
          /\ out'.op = "start" => ~isActive /\ ~isActive'
          /\ out'.op = "startOk" => isActive'
          /\ \A t \in BagToSet(tasks) :
               ( /\ t.pc = "listen"
                 /\ CopiesIn(t, tasks') < CopiesIn(t, tasks) ) =>
                   out'.op \in {"startOk", "startFailed"}
          /\ (out.op = "startOk" /\ out'.op \in {"start", "stop"}) =>
               out'.op = "stop" /\ ~isActive']_vars

\* the second of two successive toggles has stopped the session that the
\* first one started
C15_Witness ==
    /\ out.op = "stop"
    /\ out.origin = "restart2"
    /\ out.stop = 1
    /\ ~isActive

\* C17: checkHealth() looks at the heap first: when it is over the threshold
\* the call returns false at once and issues no request; when it is within
\* the threshold the request is issued, and the call then returns true
\* exactly when the request succeeds with an ok response.
C17_MemoryBeforeEndpoint ==
    [][/\ (out'.op = "checkHealth" /\ out'.memory = "over") =>
            /\ out'.probe = "unhealthy"
            /\ tasks' = tasks
       /\ (out'.op = "checkHealth" /\ out'.memory = "within") =>
            /\ out'.probe = "none"
            /\ Pending(tasks', "healthFetch")
                  = Pending(tasks, "healthFetch") + 1
       /\ out'.op = "checkHealthSettled" =>
            /\ out'.probe = "healthy" <=> out'.response = "ok"
            /\ Pending(tasks', "healthFetch")
                  = Pending(tasks, "healthFetch") - 1]_vars

\* a check that failed on the heap, after an earlier one had succeeded
C17_Witness ==
    /\ out.op = "checkHealth"
    /\ out.memory = "over"
    /\ out.probe = "unhealthy"
    /\ lastHealthCheck > 0

\* C18: checkHealth() never rejects: every call settles as true or false,
\* and as false when the request itself fails, when the response is not ok
\* and when the heap is over the threshold.
C18_CheckHealthNeverRejects ==
    [][out'.op \in {"checkHealth", "checkHealthSettled"} =>
         /\ out'.probe # "rejected"
         /\ out'.response \in {"failed", "notOk"} => out'.probe = "unhealthy"
         /\ out'.memory = "over" => out'.probe = "unhealthy"]_vars

C18_Witness ==
    /\ out.op = "checkHealthSettled"
    /\ out.origin = "client"
    /\ out.response = "failed"
    /\ out.probe = "unhealthy"

\* C19: the warning is shown exactly in the steps in which a periodic probe
\* returns false; once dispose() has cleared the interval no periodic probe
\* is started and the interval is never set again; a dispose() that finds no
\* interval changes nothing.
C19_PeriodicWarningAndDispose ==
    [][/\ out'.warn = IF out'.origin = "timer" /\ out'.probe = "unhealthy"
                      THEN 1 ELSE 0
       /\ ~healthCheckTimer =>
            /\ ~healthCheckTimer'
            /\ ~(out'.op = "checkHealth" /\ out'.origin = "timer")
       /\ out'.op \in {"dispose", "disposeNoTimer"} => ~healthCheckTimer'
       /\ out'.op = "disposeNoTimer" =>
            /\ tasks' = tasks
            /\ lastHealthCheck' = lastHealthCheck
            /\ errorCounts' = errorCounts]_vars

\* dispose() called again, after a periodic probe had succeeded
C19_Witness ==
    /\ out.op = "disposeNoTimer"
    /\ ~healthCheckTimer
    /\ lastHealthCheck > 0

\* C20: a periodic probe that settles after dispose() is discarded: it shows
\* no warning and does not update lastHealthCheck.
C20_DisposedProbeDiscarded ==
    [][( /\ ~healthCheckTimer
         /\ out'.op = "checkHealthSettled"
         /\ out'.origin = "timer" ) =>
            /\ out'.warn = 0
            /\ lastHealthCheck' = lastHealthCheck]_vars

\* the text of a result as the service in use passes it on
TextOf(r) ==
    IF provider = "webspeech" THEN trim(r.transcript) ELSE r.transcript

TextsOf(rs) == [i \in 1..Len(rs) |-> TextOf(rs[i])]

IsSuffix(a, b) ==
    /\ Len(a) <= Len(b)
    /\ a = SubSeq(b, Len(b) - Len(a) + 1, Len(b))

\* the texts handed to the handler, followed by those still on their way
Delivery == handed \o posted

\* C16 as stated: every final result emitted while a handler is registered
\* is handed to it.
C16_EveryFinalResultHanded ==
    LET IsDue(r) == r.isFinal /\ r.registered
    IN Len(Delivery) >= Len(SelectSeq(results, IsDue))

\* C16: the final results whose transcript is not empty (after trimming, in
\* WebSpeechRecognitionService) are handed to the handler exactly once and
\* in the order of their arrival, each one that was emitted while a handler
\* was registered; results that are not final or whose transcript is empty
\* are never handed to it.
C16_ResultsHandedOnceInOrder ==
    LET HasText(r) == r.isFinal /\ TextOf(r) # << >>
        IsDue(r) == HasText(r) /\ r.registered
    IN /\ IsSuffix(Delivery, TextsOf(SelectSeq(results, HasText)))
       /\ Len(Delivery) >= Len(SelectSeq(results, IsDue))

\* two results handed in the order of their arrival, a final result with an
\* empty transcript between them
C16_Witness ==
    /\ Len(results) = 3
    /\ results[1].registered
    /\ results[2].transcript = << >>
    /\ Len(handed) = 2
    /\ handed[1] = trim(results[1].transcript)
    /\ handed[2] = trim(results[3].transcript)
    /\ handed[1] # handed[2]

\* C21: VoiceManager.dispose() releases every timer and handle of the voice
\* system: after it no interval (health check, permission watch) is
\* scheduled, the recognition panel and the synthesis panel are released
\* and the session is off.
C21_DisposeReleasesEverything ==
    [][out'.op = "disposeAll" =>
         /\ ~healthCheckTimer'
         /\ ~watchTimer'
         /\ ~webview'
         /\ ~panel'
         /\ ~isActive']_vars

\* the phrase of table entry i occurs in the text and no earlier entry's does
FirstPhrase(text, i) ==
    /\ includes(text, commandPatterns[i].pattern)
    /\ \A j \in 1..(i - 1) : ~includes(text, commandPatterns[j].pattern)

\* the call ran the action of table entry i and no other: the host commands
\* executed are that entry's, and its text is the response unless the host
\* command failed
Ran(i) ==
    /\ \A k \in DOMAIN ret.host : ret.host[k].command = commandPatterns[i].host
    /\ (commandPatterns[i].host = "none") = (ret.host = << >>)
    /\ (\A k \in DOMAIN ret.host : ret.host[k].ok)
          => /\ ret.result = "resolved"
             /\ ret.value = commandPatterns[i].response

\* C22: the response of handleCommand is the result of the action of the
\* first table entry (open file, save, help) whose phrase occurs in the
\* normalized text, whatever the length and the position of the phrases
\* that occur, and no other action runs.
C22_FirstMatchInTableOrder ==
    ret.fn = "handleCommand" =>
        \A i \in DOMAIN commandPatterns :
            FirstPhrase(ret.command, i) => Ran(i)

\* "save" is said before "open the file", and the file dialog is opened
C22_Witness ==
    /\ ret.fn = "handleCommand"
    /\ OccursAt(ret.command, save, 1)
    /\ OccursAt(ret.command, openFile, 2)
    /\ ret.value = Opened
    /\ Len(ret.host) = 1

\* the normalized text, piece by piece: the text trimmed and without
\* punctuation, with each misspelt piece replaced by its table spelling
Normalized(text) ==
    LET kept(x) == x \notin Punctuation
        p == SelectSeq(trim(text), kept)
    IN [i \in DOMAIN p |->
          IF p[i] = "hiraite:kana" /\ i > 1 /\ p[i - 1] = "fairu-wo"
          THEN "hiraite:kanji"
          ELSE IF p[i] = "seebu:hiragana" THEN "seebu:katakana"
          ELSE IF p[i] = "hozon:kana" THEN "hozon:kanji"
          ELSE p[i]]

\* C23: the text that is matched is the input trimmed, then without its
\* punctuation marks, then with every misrecognition corrected; an input
\* that contains a command phrase only after that matches the phrase's action.
C23_NormalizationPrecedesMatching ==
    ret.fn = "handleCommand" =>
        /\ ret.command = Normalized(ret.text)
        /\ \A i \in DOMAIN commandPatterns :
              FirstPhrase(Normalized(ret.text), i) => Ran(i)

\* "open the file" misspelt and with a comma inside is still "open the file"
C23_Witness ==
    /\ ret.fn = "handleCommand"
    /\ ret.text = <<"fairu-wo", "touten", "hiraite:kana">>
    /\ ret.command = openFile
    /\ ret.value = Opened

\* C24: when no command phrase occurs in the normalized text, handleCommand
\* returns the not-recognized response and executes no host command.
C24_NoMatchNoHostCommand ==
    (/\ ret.fn = "handleCommand"
     /\ \A i \in DOMAIN commandPatterns :
           ~includes(ret.command, commandPatterns[i].pattern))
        => /\ ret.result = "resolved"
           /\ ret.value = NotRecognized
           /\ ret.host = << >>

C24_Witness ==
    /\ ret.fn = "handleCommand"
    /\ ret.text = <<"seebu:hiragana", "shite">>
    /\ ret.value = NotRecognized

\* a host command of the call failed
HostFailed == \E k \in DOMAIN ret.host : ~ret.host[k].ok

\* C25 as stated: a failed host command is executed once and handleCommand
\* fails with the host's error.
C25_HostFailureRaised ==
    (ret.fn = "handleCommand" /\ HostFailed)
        => /\ Len(ret.host) = 1
           /\ ret.result = "rejected"

\* C25: a failed host command is executed once, not retried, and
\* handleCommand returns normally with its fixed execution-error text.
C25_HostFailureReturnedAsText ==
    (ret.fn = "handleCommand" /\ HostFailed)
        => /\ Len(ret.host) = 1
           /\ ret.result = "resolved"
           /\ ret.value = ExecutionError

C25_Witness ==
    /\ ret.fn = "handleCommand"
    /\ ret.host = <<[command |-> "workbench.action.files.save", ok |-> FALSE]>>
    /\ ret.value = ExecutionError

\* C26: synthesize() issues the query request first and the synthesis
\* request only after a 2xx answer to the query; a non-2xx answer to either
\* request makes it fail with a VoicevoxError carrying that status, every
\* other failure with a VoicevoxError of status 500, and with no other error.
C26_SynthesizeErrorsTyped ==
    ret.fn = "synthesize" =>
        LET n == Len(ret.requests)
            last == ret.requests[n]
        IN /\ n \in 1..2
           /\ ret.requests[1].request = "audio_query"
           /\ n = 2 => /\ ret.requests[2].request = "synthesis"
                       /\ isOk(ret.requests[1].status)
           /\ (last.status # NoResponse /\ ~isOk(last.status))
                 => /\ ret.result = "rejected"
                    /\ ret.error = "VoicevoxError"
                    /\ ret.status = last.status
           /\ ret.result = "rejected" => ret.error = "VoicevoxError"
           /\ (ret.result = "rejected"
                 /\ (last.status = NoResponse \/ isOk(last.status)))
                 => ret.status = 500

\* the step ran handleError(): an error was logged, and not by a client
\* calling the monitor's logError() itself
HandledError(o) == o.logged # "none" /\ o.op # "logError"

\* C27: every error that reaches handleError() is a VoiceRecognitionError
\* or a VoicevoxError; a start() that fails on an unhealthy probe or in the
\* provider is reported as one of the two.
C27_OnlyTypedErrorsHandled ==
    [][HandledError(out') =>
         out'.logged \in {"VoiceRecognitionError", "VoicevoxError"}]_vars

\* C28: the text the webview produces for each of the six recognition error
\* codes is mapped back to that code, and a text that is none of these
\* texts is handed to the registered error handler as a
\* VoiceRecognitionError with the code not-allowed.
C28_ErrorCodeRoundTrip ==
    [][(out'.op \in {"errorDelivered", "errorDropped"}) =>
         /\ out'.op = "errorDelivered"
         /\ out'.key = "VoiceRecognitionError"
         /\ \A c \in VoiceRecognitionErrorCode :
               out'.message = getErrorMessage(c) => out'.code = c
         /\ (\A c \in VoiceRecognitionErrorCode :
                out'.message # getErrorMessage(c))
               => out'.code = "not-allowed"]_vars

\* the answer of the k-th dialog of requestMicrophonePermission()
DialogAnswer(k) == ret.answers[IF k = 1 THEN 2 ELSE k + 2]

\* C29: the permission provider never raises. checkMicrophonePermission()
\* yields false when the query fails; requestMicrophonePermission() returns
\* true without a dialog when the permission is already granted, false when
\* the user cancels or dismisses one of its dialogs, and false when opening
\* the settings, reloading the window or a permission query fails.
C29_PermissionProviderNeverRaises ==
    /\ ret.fn = "checkMicrophonePermission" =>
          /\ ret.result = "resolved"
          /\ ret.value = <<"true">> <=> (/\ platform = "darwin"
                                         /\ ret.answers[1] = "true")
          /\ ret.value # <<"true">> => ret.value = <<"false">>
    /\ ret.fn = "requestMicrophonePermission" =>
          /\ ret.result = "resolved"
          /\ ret.value \in {<<"true">>, <<"false">>}
          /\ (platform = "darwin" /\ ret.answers[1] = "true")
                => ret.value = <<"true">> /\ ret.dialogs = 0
          /\ (\E k \in 1..ret.dialogs : DialogAnswer(k) # "accept")
                => ret.value = <<"false">>
          /\ (ret.dialogs >= 1 /\ DialogAnswer(1) = "accept"
                /\ ret.answers[3] = "error") => ret.value = <<"false">>
          /\ (ret.dialogs = 3 /\ DialogAnswer(3) = "accept"
                /\ ret.answers[6] = "error") => ret.value = <<"false">>
          /\ (ret.answers[1] = "error" /\ ret.answers[7] = "error")
                => ret.value = <<"false">>

\* the window reload fails after the three dialogs were accepted
C29_Witness ==
    /\ ret.fn = "requestMicrophonePermission"
    /\ ret.dialogs = 3
    /\ ret.answers[6] = "error"
    /\ ret.value = <<"false">>

\* the steps in which a run of the interval callback ends
PollOps == {"permissionChanged", "permissionSame"}

\* C30: a poll invokes the callback exactly when the state it observed
\* differs from previousState, with the observed state, which becomes
\* previousState in the same step; previousState changes in no other step
\* once the watch has started, so two callbacks in a row never carry the
\* same value, also when polls overlap.
C30_CallbackExactlyOnChange ==
    [][/\ out'.op \in PollOps =>
            /\ (out'.op = "permissionChanged")
                  <=> (out'.perm # PermissionState(previousState))
            /\ out'.perm = PermissionState(previousState')
       /\ previousState' # previousState
             => out'.op \in {"permissionChanged", "watchStarted"}]_vars

\* the loss of the permission is reported, and the session stopped, while
\* another poll is still running
C30_Witness ==
    /\ out.op = "permissionChanged"
    /\ out.perm = "denied"
    /\ out.warn = 1
    /\ ~isActive
    /\ Pending(tasks, "poll") >= 1

\* the steps in which a call of startListening() ends
ListenOps == {"listening", "listenSilent", "listenThrew"}

\* stopListening() posts stop to the webview there is and creates no panel
StopListeningPosts ==
    [][out'.op = "stopListening" =>
         /\ out'.stop = (IF webview THEN 1 ELSE 0)
         /\ out'.created = 0
         /\ webview' = webview]_vars

C32_ActiveOnlyAfterStartSent ==
    [][(out'.op = "startOk" /\ isActive') => out'.start = 1]_vars

\* C33: when the first toggle of an accepted recognition restart has
\* started the session (probe healthy, permission granted, start command
\* posted), the second toggle of the restart leaves the session active.
C33_RestartLeavesSessionActive ==
    [][( /\ out.op = "startOk"
         /\ out.origin = "restart1"
         /\ out.start = 1
         /\ out'.origin = "restart2" ) => isActive']_vars

\* C34: a recognition result that arrives while the session is inactive is
\* not handled as a command: handleCommand() and provideFeedback() run only
\* for a result that arrives while the session is active.
C34_NoCommandWhileInactive ==
    [][out'.op \in {"feedbackOk", "feedbackFailed"} => isActive]_vars

\* the speak() calls the step settles
Settled == {id \in SpeakIds : speaking[id] = "pending" /\ speaking'[id] # "pending"}

\* C35: a speak() call is settled only by a message about the playback that
\* the call itself started
C35_SettledByOwnPlayback ==
    [][\A id \in Settled : Head(inbox).play = id]_vars

\* C36: every speak() call that is pending is eventually resolved or
\* rejected, also when the panel is closed or the service is disposed
C36_EverySpeakSettles ==
    \A id \in SpeakIds :
        (speaking[id] = "pending") ~> (speaking[id] \in {"resolved", "rejected"})

\* C37: voice feedback is synthesized and spoken through the service that
\* the VoiceManager holds, which is the one updateSettings() installed last
C37_FeedbackThroughInstalledService ==
    [][out'.op \in {"feedbackSynthesize", "feedbackSpeak"}
          => ret'.service = synthesisService']_vars

\* C38: when the permission watcher reports a change, the controller stops
\* the session (it becomes inactive, the provider is told to stop) and shows
\* one warning if the permission was lost while the session was active;
\* otherwise the session is left as it is and no warning is shown
C38_PermissionLossStopsActiveSession ==
    [][out'.op = "permissionChanged" =>
          IF out'.perm = "denied" /\ isActive
          THEN /\ ~isActive'
               /\ out'.stop = stopListening(webview)
               /\ out'.warn = 1
          ELSE /\ isActive' = isActive
               /\ sessions' = sessions
               /\ out'.stop = 0
               /\ out'.warn = 0]_vars

\* the loss of the permission was reported while the session was active and
\* the recognition panel open: the stop command was posted, the warning shown
C38_Witness ==
    /\ out.op = "permissionChanged"
    /\ out.perm = "denied"
    /\ out.stop = 1
    /\ out.warn = 1
    /\ ~isActive
    /\ webview

\* C39: isListening is false after every failed startListening() and after
\* every recognition error, so that the flag is set only while the
\* recognizer is started and the guard of startListening() never skips a
\* start while no recognition is running
C39_ListeningOnlyWhileRecognizing ==
    isListening => recognizing # "idle"

====
